---- MODULE Spec2Model ----
(***************************************************************************)
(* Model of the meeting-ingestion core of Stratagem-Mindloop:              *)
(*   - TranscriptBufferService   (backend/app/services/transcript_buffer)  *)
(*   - DeepgramStreamingSession / DeepgramSTTService (services/deepgram_stt)*)
(*   - meeting_ingestion_socket  (backend/app/api/websocket)               *)
(* Text is a sequence of one-character strings.  An Optional return value  *)
(* is a sequence of length 0 (None) or 1.  A dict is a function whose      *)
(* DOMAIN is the set of its keys.                                          *)
(***************************************************************************)
EXTENDS Integers, Sequences, FiniteSets, TLC

VARIABLES
    buffers,      \* TranscriptBufferService._buffers: meeting id -> TranscriptBuffer
    bufEvent,     \* the last buffer call: its name, arguments and return value
    sess,         \* the DeepgramStreamingSession objects created so far, by object id
    sessions,     \* DeepgramSTTService._sessions: meeting id -> session object id
    callbacks,    \* DeepgramSTTService._callbacks: meeting id -> callback
    nextChunk,    \* the label of the next audio chunk a session accepts (1, 2, ...)
    sttEvent,     \* the last step of the STT component: call, arguments, outcome
    gw,           \* websocket.py: the handler of each ingestion connection
    connections,  \* WebSocketManager._connections: user id -> set of websockets
    handles,      \* the notification websockets and their handlers
    emits,        \* the emit_to_user calls: their locals and position
    hubEvent,     \* the last step of the notification hub
    org_members,  \* Firestore org_members of the organization: uid -> role
    team_members, \* Firestore team_members: <<team id, uid>> -> role
    pending,      \* Firestore pending_task_approvals, in the order of creation
    emitCall,     \* the emit_task_detected call under way: its locals and position
    appEvent,     \* the last step of the approval workflow and what it returned
    tasks,        \* Firestore tasks, in the order of creation
    calls,        \* the worker threads of approve/reject calls: locals and position
    resEvent      \* the last approve/reject call that returned: operation and result

bufVars == <<buffers, bufEvent>>

sttVars == <<sess, sessions, callbacks, nextChunk, sttEvent>>

gwVars == <<gw>>

hubVars == <<connections, handles, emits, hubEvent>>

resVars == <<tasks, calls, resEvent>>

appVars == <<org_members, team_members, pending, emitCall, appEvent, resVars>>

vars == <<buffers, bufEvent, sess, sessions, callbacks, nextChunk, sttEvent, gw,
          connections, handles, emits, hubEvent,
          org_members, team_members, pending, emitCall, appEvent,
          tasks, calls, resEvent>>

----------------------------------------------------------------------------
(* Bounds and input sets *)

\* calls that store an entry are cut off once the histories hold this many entries
MaxFull == 3

\* session objects alive at once
MaxSessions == 1

\* audio chunks passed to the service; to a session driven on its own
MaxChunks == 1
MaxSessionChunks == 202

\* chunks the provider connection of a session driven on its own takes
MaxSends == 2

Meetings == {"m1"}

\* object ids of sessions: one more than may be alive, for the session that
\* replaces a closed one while that one is still registered
SessionIds == 1..(MaxSessions + 1)

Callbacks == {"cb1", "cb2"}

\* ingestion connections, all for the one meeting; the callback a handler passes
\* to start_session is its own handle_transcript closure, named by the connection
Connections == {"c1", "c2"}

\* entries the handlers' callbacks may have stored at a time
MaxTranscripts == 1

\* frames of an ingestion client: the keepalive token, text that is no JSON, JSON
\* that is no object, an object without timestamp, without audio_chunk, with an
\* audio_chunk that is no base64 (ASCII text outside the alphabet or wrongly
\* padded; text with a character outside ASCII), that decodes to nothing, that
\* decodes to audio
FrameKinds ==
    {"ping", "malformed", "not_object", "no_timestamp", "no_audio", "bad_base64",
     "non_ascii_base64", "empty_audio", "audio"}

\* what the provider connection delivers to _receive_loop: a binary frame, a JSON
\* message that is no usable result (another type, no alternatives, empty
\* transcript), an interim result, a final result, text that makes the loop raise
MessageKinds == {"binary", "other", "partial", "final", "invalid"}

\* what the callback of a session does when it is awaited: it returns, or it
\* raises an Exception
CallbackOutcomes == {"returns", "raises"}

\* pending approvals stored at a time
MaxPending == 2

\* team ids: None and a team of the organization
NoTeam == "None"
TeamIds == {NoTeam, "t1"}

\* organization ids: the organization whose members the model follows, and
\* another one; a team belongs to one organization
OurOrg == "o1"
OrgIds == {OurOrg, "o2"}
OrgTeams == {<<OurOrg, NoTeam>>, <<OurOrg, "t1">>, <<"o2", NoTeam>>}

\* task candidates as a caller passes them: a title, the detectedAt stamp, the
\* approved and rejected flags
Candidate(title, detectedAt) ==
    [title |-> title, detectedAt |-> detectedAt, approved |-> FALSE, rejected |-> FALSE]
CandidateLists ==
    { <<>>,
      << Candidate(<<" ", "F">>, 2) >>,
      << Candidate(<<"F">>, 2), Candidate(<<" ">>, 1) >>,
      << Candidate(<<"G">>, 0), Candidate(<<"H">>, 1) >>,
      << [Candidate(<<"A">>, 1) EXCEPT !.approved = TRUE] >> }

\* the worker threads of the approve/reject calls under way
Threads == {"a", "b"}

\* tasks stored at a time
MaxTasks == 2

\* the arguments of the approve/reject calls: pending ids, task indexes (from
\* 0), the task_indexes of reject_all_tasks
PendingIds == 1..MaxPending
TaskIndexes == {-1, 0, 1, 2}
IndexLists == { [given |-> FALSE, indexes |-> {}], [given |-> TRUE, indexes |-> {}],
                [given |-> TRUE, indexes |-> {0}], [given |-> TRUE, indexes |-> {0, 1}] }

\* the lists SpecApproval and SpecResolve pass to emit_task_detected
ListedCandidates == { <<>>, << Candidate(<<" ", "F">>, 2) >> }
ResolvedCandidates ==
    { << Candidate(<<"G">>, 0), Candidate(<<"H">>, 1) >>,
      << [Candidate(<<"A">>, 1) EXCEPT !.approved = TRUE] >> }

\* the clock of _normalize_task_candidates, in ms, later than every stamp
NormalizeClock == {3}

\* the meeting_id query parameter of a connection attempt: absent, empty, given
MeetingParams == {"absent", "", "m1"}

\* the token query parameter: absent, empty, one verify_id_token accepts, and
\* ones it raises for (invalid, expired, revoked, any other failure)
Tokens == {"absent", "", "good", "invalid", "expired", "revoked", "garbage"}

\* what analyze_meeting does at the end of a meeting: it returns an analysis with
\* tasks, returns nothing, or raises
AnalysisOutcomes == {"tasks", "nothing", "failure"}

\* timestamps a caller may pass, and wall-clock readings of time.time()*1000
Timestamps == {0, 30000, 40000}
ClockValues == {30000, 60000, 80000}

\* users of the notification channel and their websockets
Users == {"u1", "u2"}
Handles == {"w1", "w2", "w3"}

\* emit_to_user calls made
MaxEmits == 1
Emitters == 1..MaxEmits

Whitespace == {" ", "\t", "\n"}

\* raw texts a caller may pass
RawTexts ==
    { <<" ", "\t">>,
      <<"h">>,
      <<"\n", "h", ".", " ">>,
      <<"w", " ", "\t", "w", "!">> }

----------------------------------------------------------------------------
(* transcript_buffer.py *)

BUFFER_WINDOW_MS == 30000

TranscriptEntry(text, timestamp) == [text |-> text, timestamp |-> timestamp]

TranscriptBuffer == [entries |-> <<>>, full_entries |-> <<>>]

\* dict helpers
DictSet(d, k, v) == [x \in (DOMAIN d) \cup {k} |-> IF x = k THEN v ELSE d[x]]
DictPop(d, k) == [x \in (DOMAIN d) \ {k} |-> d[x]]

\* str.strip(): drop leading and trailing whitespace
RECURSIVE str_lstrip(_)
str_lstrip(text) ==
    IF text # <<>> /\ Head(text) \in Whitespace THEN str_lstrip(Tail(text)) ELSE text

RECURSIVE str_rstrip(_)
str_rstrip(text) ==
    IF text # <<>> /\ text[Len(text)] \in Whitespace
    THEN str_rstrip(SubSeq(text, 1, Len(text) - 1))
    ELSE text

str_strip(text) == str_rstrip(str_lstrip(text))

\* str.split(): the maximal runs of non-whitespace characters
RECURSIVE split_from(_, _, _, _)
split_from(text, i, cur, acc) ==
    IF i > Len(text)
    THEN (IF cur = <<>> THEN acc ELSE Append(acc, cur))
    ELSE IF text[i] \in Whitespace
         THEN split_from(text, i + 1, <<>>, IF cur = <<>> THEN acc ELSE Append(acc, cur))
         ELSE split_from(text, i + 1, Append(cur, text[i]), acc)

str_split(text) == split_from(text, 1, <<>>, <<>>)

\* ' '.join(words)
RECURSIVE str_join(_)
str_join(words) ==
    IF words = <<>> THEN <<>>
    ELSE IF Len(words) = 1 THEN words[1]
    ELSE words[1] \o <<" ">> \o str_join(Tail(words))

\* a _normalize_text that does not append the terminal '.'
normalize_text_no_terminator(text) == str_join(str_split(str_strip(text)))

normalize_text(text) ==
    LET cleaned == str_join(str_split(str_strip(text)))
    IN  IF cleaned = <<>> THEN <<>>
        ELSE IF cleaned[Len(cleaned)] \notin {".", "!", "?"}
             THEN Append(cleaned, ".")
             ELSE cleaned

\* _prune: pop from the left while the head is older than the cutoff
RECURSIVE prune(_, _)
prune(entries, current_ts) ==
    IF entries # <<>> /\ Head(entries).timestamp < current_ts - BUFFER_WINDOW_MS
    THEN prune(Tail(entries), current_ts)
    ELSE entries

RECURSIVE SumLen(_, _)
SumLen(d, keys) ==
    IF keys = {} THEN 0
    ELSE LET k == CHOOSE x \in keys : TRUE
         IN  Len(d[k].full_entries) + SumLen(d, keys \ {k})

TotalFull == SumLen(buffers, DOMAIN buffers)

init_meeting(bufs, m) ==
    IF m \in DOMAIN bufs THEN bufs ELSE DictSet(bufs, m, TranscriptBuffer)

\* a _store_transcript that keeps the interim results out of the full history
store_transcript_finals_in_history(bufs, m, text, timestamp, allow_duplicates) ==
    LET buffer == IF m \in DOMAIN bufs THEN bufs[m] ELSE TranscriptBuffer
        normalized == normalize_text(text)
        entry == TranscriptEntry(normalized, timestamp)
        skip_empty == normalized = <<>>
        skip_dup == /\ ~allow_duplicates
                    /\ buffer.entries # <<>>
                    /\ buffer.entries[Len(buffer.entries)].text = normalized
        stored == [entries |-> Append(prune(buffer.entries, entry.timestamp), entry),
                   full_entries |-> IF allow_duplicates THEN buffer.full_entries
                                    ELSE Append(buffer.full_entries, entry)]
    IN  IF skip_empty \/ skip_dup
        THEN [buffers |-> DictSet(bufs, m, buffer), ret |-> <<>>]
        ELSE [buffers |-> DictSet(bufs, m, stored), ret |-> <<entry>>]

\* _store_transcript, the body of add_final_transcript and add_partial_transcript:
\* the registry after the call and the call's return value
store_transcript(bufs, m, text, timestamp, allow_duplicates) ==
    LET buffer == IF m \in DOMAIN bufs THEN bufs[m] ELSE TranscriptBuffer
        normalized == normalize_text(text)
        entry == TranscriptEntry(normalized, timestamp)
        skip_empty == normalized = <<>>
        skip_dup == /\ ~allow_duplicates
                    /\ buffer.entries # <<>>
                    /\ buffer.entries[Len(buffer.entries)].text = normalized
        stored == [entries |-> Append(prune(buffer.entries, entry.timestamp), entry),
                   full_entries |-> Append(buffer.full_entries, entry)]
    IN  IF skip_empty \/ skip_dup
        THEN [buffers |-> DictSet(bufs, m, buffer), ret |-> <<>>]
        ELSE [buffers |-> DictSet(bufs, m, stored), ret |-> <<entry>>]

\* an add_final_transcript that stores with allow_duplicates=True
add_final_transcript_allow_duplicates(bufs, m, text, timestamp) ==
    store_transcript(bufs, m, text, timestamp, TRUE)

add_final_transcript(bufs, m, text, timestamp) ==
    store_transcript(bufs, m, text, timestamp, FALSE)

add_partial_transcript(bufs, m, text, timestamp) ==
    store_transcript(bufs, m, text, timestamp, TRUE)

clear_meeting(bufs, m) == DictPop(bufs, m)

\* a get_recent_entries that prunes the full history as well
get_recent_entries_prune_full(bufs, m, now) ==
    IF m \in DOMAIN bufs
    THEN [buffers |-> [bufs EXCEPT ![m] = [entries |-> prune(@.entries, now),
                                           full_entries |-> prune(@.full_entries, now)]],
          ret |-> prune(bufs[m].entries, now)]
    ELSE [buffers |-> bufs, ret |-> <<>>]

\* get_recent_entries: prunes against the wall clock, then returns the rolling queue
get_recent_entries(bufs, m, now) ==
    IF m \in DOMAIN bufs
    THEN [buffers |-> [bufs EXCEPT ![m].entries = prune(@, now)],
          ret |-> prune(bufs[m].entries, now)]
    ELSE [buffers |-> bufs, ret |-> <<>>]

get_full_entries(bufs, m) ==
    [buffers |-> bufs, ret |-> IF m \in DOMAIN bufs THEN bufs[m].full_entries ELSE <<>>]

----------------------------------------------------------------------------
(* deepgram_stt.py: DeepgramStreamingSession *)

\* asyncio.Queue(maxsize=200)
AUDIO_QUEUE_MAXSIZE == 200

\* items of the audio queue: a chunk is its label (1, 2, ...), None is the close sentinel
NoneItem == 0
\* b'', the empty chunk that add_audio ignores
EmptyChunk == -1

\* DeepgramStreamingSession.__init__: empty queue, flags down, the _run task created.
\*   worker    the _run task: "connecting" (ws_connect and the start message),
\*             "streaming" (the gather of the two loops), "done"
\*   conn      the provider connection: "none", "open", "closed" (dropped by the provider)
\*   sender    _send_audio_loop: "idle", "running", "done";  inflight is the item it
\*             took from the queue and is sending
\*   receiver  _receive_loop: "idle", "running", "callback" (suspended inside the
\*             callback it awaits, whose argument is payload), "done"
\*   handshake outcome of ws_connect: "pending", "ok", "failed"
\*   close_waiting  a close() call is suspended in `await self._worker`
\*   sent, stop_frames  what went out on the provider connection: the label of the
\*             last chunk sent (0: none), the number of chunks, of stop frames
DeepgramStreamingSession(meeting_id, callback) ==
    [ meeting_id |-> meeting_id, callback |-> callback,
      audio_queue |-> <<>>, stopping |-> FALSE, closed |-> FALSE,
      worker |-> "connecting", conn |-> "none", handshake |-> "pending",
      sender |-> "idle", inflight |-> <<>>, receiver |-> "idle", payload |-> <<>>,
      close_waiting |-> FALSE,
      last_sent |-> 0, n_sent |-> 0, stop_frames |-> 0 ]

\* a queue that refuses the new item when it is full
put_drop_newest(queue, item) ==
    IF Len(queue) >= AUDIO_QUEUE_MAXSIZE
    THEN queue
    ELSE Append(queue, item)

\* put_nowait(item); on QueueFull: get_nowait() drops the oldest item, then put_nowait(item)
put_drop_oldest(queue, item) ==
    IF Len(queue) >= AUDIO_QUEUE_MAXSIZE
    THEN Append(Tail(queue), item)
    ELSE Append(queue, item)

\* add_audio: the session after the call
add_audio(ss, chunk) ==
    IF ss.stopping \/ ss.closed THEN ss
    ELSE IF chunk = EmptyChunk THEN ss
    ELSE [ss EXCEPT !.audio_queue = put_drop_oldest(@, chunk)]

\* a close() that queues the sentinel and returns without awaiting the worker
close_no_wait(ss) ==
    IF ss.stopping THEN ss
    ELSE [ss EXCEPT !.stopping = TRUE,
                    !.audio_queue = put_drop_oldest(@, NoneItem)]

\* close(), up to its `await self._worker`: a session already stopping ignores the
\* call; otherwise the sentinel is queued and the caller waits for the worker unless
\* the worker task has already finished
close(ss) ==
    IF ss.stopping THEN ss
    ELSE [ss EXCEPT !.stopping = TRUE,
                    !.audio_queue = put_drop_oldest(@, NoneItem),
                    !.close_waiting = (ss.worker # "done")]

\* _run/_transcribe: ws_connect succeeded and the start message went out; the two
\* loops are created
connect_ok(ss) ==
    [ss EXCEPT !.worker = "streaming", !.conn = "open", !.handshake = "ok",
               !.sender = "running", !.receiver = "running"]

\* _run/_transcribe: ws_connect (or the start message) raised; _transcribe logs it and
\* _run's finally marks the session closed
connect_failed(ss) ==
    [ss EXCEPT !.worker = "done", !.handshake = "failed", !.closed = TRUE]

\* a sender that takes the newest item of the queue
sender_get_newest(ss) ==
    [ss EXCEPT !.inflight = <<ss.audio_queue[Len(ss.audio_queue)]>>,
               !.audio_queue = SubSeq(@, 1, Len(@) - 1)]

\* _send_audio_loop: `chunk = await self._audio_queue.get()`, the send begins
sender_get(ss) ==
    [ss EXCEPT !.inflight = <<Head(ss.audio_queue)>>, !.audio_queue = Tail(@)]

\* _send_audio_loop: the send of the item in flight completes, or raises
\* (ConnectionClosed, any Exception) when the connection is gone: the loop ends
sender_send(ss) ==
    LET item == ss.inflight[1]
    IN  IF ss.conn # "open"
        THEN [ss EXCEPT !.inflight = <<>>, !.sender = "done"]
        ELSE IF item = NoneItem
        THEN [ss EXCEPT !.inflight = <<>>, !.sender = "done", !.stop_frames = @ + 1]
        ELSE [ss EXCEPT !.inflight = <<>>, !.last_sent = item, !.n_sent = @ + 1]

\* a _dispatch_callback that lets the callback's exception through: the
\* `except Exception` of _receive_loop catches it and the loop ends
dispatch_callback_propagates(ss, outcome) ==
    IF outcome = "raises" THEN [ss EXCEPT !.receiver = "done"] ELSE ss

\* _dispatch_callback: awaits the callback inside try/except Exception; an
\* exception is logged and the call returns as it does when the callback returns
dispatch_callback(ss, outcome) == ss

\* _receive_loop and _handle_deepgram_message on one message: a binary frame is
\* skipped, a message that is no usable result is dropped, a result is handed to the
\* callback (whose exceptions _dispatch_callback catches); text that is not JSON, or
\* JSON that is no object, makes the loop raise and end
receive_message(ss, kind, outcome) ==
    IF kind = "invalid" THEN [ss EXCEPT !.receiver = "done"]
    ELSE IF kind \in {"partial", "final"} THEN dispatch_callback(ss, outcome)
    ELSE ss

\* _receive_loop ends on ConnectionClosed
receiver_end(ss) == [ss EXCEPT !.receiver = "done"]

\* the provider drops the connection
provider_close(ss) == [ss EXCEPT !.conn = "closed"]

\* gather returned: the connection context exits and _run's finally marks the
\* session closed
worker_finish(ss) ==
    [ss EXCEPT !.worker = "done", !.closed = TRUE,
               !.conn = IF @ = "open" THEN "closed" ELSE @]

\* close() resumes from `await self._worker` and returns
close_return(ss) == [ss EXCEPT !.close_waiting = FALSE]

----------------------------------------------------------------------------
(* deepgram_stt.py: DeepgramSTTService *)

SttEvent(op, m, s, chunk, result) ==
    [op |-> op, meeting |-> m, session |-> s, chunk |-> chunk, result |-> result]

\* the object id of the next session constructed: the smallest id not in use
NewSessionId(heap) == CHOOSE i \in 1..(Cardinality(DOMAIN heap) + 1) : i \notin DOMAIN heap

\* A session object lives while something refers to it: the registry, its own
\* running _run task, or a close() call waiting for that task.  Python frees the
\* others; collect(heap, registry) is the heap without them.
collect(heap, registry) ==
    LET live(x) == \/ (\E m \in DOMAIN registry : registry[m] = x)
                   \/ heap[x].worker # "done"
                   \/ heap[x].close_waiting
    IN  [s \in {x \in DOMAIN heap : live(x)} |-> heap[s]]

\* the sessions whose _run task has not finished
Running(heap) == {x \in DOMAIN heap : heap[x].worker # "done"}

\* a _create_session that raises for any registered session, closed or not
create_session_no_reuse(heap, registry, m, callback) ==
    IF m \in DOMAIN registry
    THEN [sess |-> heap, sessions |-> registry, session |-> 0, result |-> "AlreadyActive"]
    ELSE LET s == NewSessionId(heap)
         IN  [sess |-> DictSet(heap, s, DeepgramStreamingSession(m, callback)),
              sessions |-> DictSet(registry, m, s),
              session |-> s, result |-> "ok"]

\* _create_session: raises when a registered session is not closed; otherwise
\* drops the closed one and registers a new session.  The state is the pair of
\* the object heap and the registry.
create_session(heap, registry, m, callback) ==
    IF m \in DOMAIN registry /\ ~heap[registry[m]].closed
    THEN [sess |-> heap, sessions |-> registry, session |-> 0, result |-> "AlreadyActive"]
    ELSE LET s == NewSessionId(heap)
         IN  [sess |-> DictSet(heap, s, DeepgramStreamingSession(m, callback)),
              sessions |-> DictSet(registry, m, s),
              session |-> s, result |-> "ok"]

\* start_session: registers the callback, then _create_session
start_session(heap, registry, cbs, m, callback) ==
    LET r == create_session(heap, registry, m, callback)
    IN  [sess |-> r.sess, sessions |-> r.sessions, callbacks |-> DictSet(cbs, m, callback),
         session |-> r.session, result |-> r.result]

\* an _ensure_session that never rehydrates
ensure_session_no_rehydrate(heap, registry, cbs, m) ==
    IF m \in DOMAIN registry /\ ~heap[registry[m]].closed
    THEN [sess |-> heap, sessions |-> registry, session |-> registry[m], result |-> "ok"]
    ELSE [sess |-> heap, sessions |-> registry, session |-> 0, result |-> "NoCallbackRegistered"]

\* _ensure_session: the registered session when it is not closed; otherwise a new
\* one with the registered callback, or NoCallbackRegistered
ensure_session(heap, registry, cbs, m) ==
    IF m \in DOMAIN registry /\ ~heap[registry[m]].closed
    THEN [sess |-> heap, sessions |-> registry, session |-> registry[m], result |-> "ok"]
    ELSE IF m \notin DOMAIN cbs
    THEN [sess |-> heap, sessions |-> registry, session |-> 0, result |-> "NoCallbackRegistered"]
    ELSE LET r == create_session(heap, registry, m, cbs[m])
         IN  [sess |-> r.sess, sessions |-> r.sessions, session |-> r.session,
              result |-> IF r.result = "ok" THEN "rehydrated" ELSE r.result]

\* send_audio_chunk: _ensure_session, then add_audio on the session it returned
send_audio_chunk(heap, registry, cbs, m, chunk) ==
    LET r == ensure_session(heap, registry, cbs, m)
    IN  IF r.session = 0 THEN r
        ELSE [r EXCEPT !.sess = [r.sess EXCEPT ![r.session] = add_audio(@, chunk)]]

\* a close_session that leaves the callback registered
close_session_keep_callback(heap, registry, cbs, m) ==
    IF m \in DOMAIN registry
    THEN [sess |-> [heap EXCEPT ![registry[m]] = close(@)],
          sessions |-> DictPop(registry, m), callbacks |-> cbs,
          session |-> registry[m]]
    ELSE [sess |-> heap, sessions |-> registry, callbacks |-> cbs, session |-> 0]

\* close_session: pops the session and the callback, then close() on the session
close_session(heap, registry, cbs, m) ==
    IF m \in DOMAIN registry
    THEN [sess |-> [heap EXCEPT ![registry[m]] = close(@)],
          sessions |-> DictPop(registry, m), callbacks |-> DictPop(cbs, m),
          session |-> registry[m]]
    ELSE [sess |-> heap, sessions |-> registry, callbacks |-> DictPop(cbs, m), session |-> 0]

\* close_all: both registries are replaced by empty ones, then close() on each
\* session that was registered, one after the other; Meetings has one meeting,
\* so there is at most one session to close
close_all(heap, registry, cbs) ==
    [sess |-> [s \in DOMAIN heap |->
                  IF \E m \in DOMAIN registry : registry[m] = s
                  THEN close(heap[s]) ELSE heap[s]],
     sessions |-> <<>>, callbacks |-> <<>>]

----------------------------------------------------------------------------
(* websocket.py: meeting_ingestion_socket, the handler of one ingestion connection *)

\* close codes the handler sends
WS_CLOSE_NORMAL == 1000
WS_CLOSE_POLICY == 1008
WS_CLOSE_TRY_LATER == 1013

\* the meeting_id query parameter of a connection
MeetingOf(c) == "m1"

\* security.py: verify_firebase_token_ws, its success flag and error reason
verify_firebase_token_ws(token) ==
    CASE token \in {"absent", ""} -> [success |-> FALSE, reason |-> "Token is required"]
      [] token = "good"            -> [success |-> TRUE,  reason |-> ""]
      [] token = "invalid"         -> [success |-> FALSE, reason |-> "Invalid ID token"]
      [] token = "expired"         -> [success |-> FALSE, reason |-> "ID token has expired"]
      [] token = "revoked"         -> [success |-> FALSE, reason |-> "ID token has been revoked"]
      [] OTHER                     -> [success |-> FALSE, reason |-> "Token verification failed"]

\* a handshake that looks at the token only
handshake_token_only(meeting_id, token) ==
    IF ~verify_firebase_token_ws(token).success
    THEN [accept |-> FALSE, code |-> WS_CLOSE_POLICY, reason |-> verify_firebase_token_ws(token).reason]
    ELSE [accept |-> TRUE, code |-> 0, reason |-> ""]

\* the head of meeting_ingestion_socket: close(1008) when meeting_id is missing
\* or empty, close(1008) when the token does not verify, accept() otherwise
handshake(meeting_id, token) ==
    IF meeting_id \in {"absent", ""}
    THEN [accept |-> FALSE, code |-> WS_CLOSE_POLICY, reason |-> "meeting_id is required"]
    ELSE IF ~verify_firebase_token_ws(token).success
    THEN [accept |-> FALSE, code |-> WS_CLOSE_POLICY, reason |-> verify_firebase_token_ws(token).reason]
    ELSE [accept |-> TRUE, code |-> 0, reason |-> ""]

\* One iteration of the receive loop on a frame, chunk being the audio a frame
\* of kind "audio" decodes to.  next is where the handler goes: "continue" with
\* the next receive_text, or "finally" when an exception leaves the loop.
\*   "ping"              `continue`
\*   "malformed"         json.loads raises JSONDecodeError: logged, `continue`
\*   "not_object"        payload.get raises AttributeError, which only the
\*                       `except Exception` around the loop catches
\*   "no_timestamp"      logged, `continue`
\*   "no_audio"          nothing to decode, next iteration
\*   "bad_base64"        b64decode raises binascii.Error: logged, `continue`
\*   "non_ascii_base64"  b64decode raises ValueError, which is neither
\*                       binascii.Error nor TypeError: it leaves the loop
\*   "empty_audio"       `continue`
\*   "audio"             send_audio_chunk, whose exceptions are logged
receive_frame(heap, registry, cbs, m, kind, chunk) ==
    LET r == send_audio_chunk(heap, registry, cbs, m, chunk)
        same(next) == [next |-> next, forwarded |-> FALSE, sess |-> heap,
                       sessions |-> registry, session |-> 0, result |-> "ok"]
    IN  CASE kind \in {"not_object", "non_ascii_base64"} -> same("finally")
          [] kind = "audio" ->
                [next |-> "continue", forwarded |-> TRUE, sess |-> r.sess,
                 sessions |-> r.sessions, session |-> r.session, result |-> r.result]
          [] OTHER -> same("continue")

\* A handler as the connection attempt arrives.
\*   pc            "authenticating", "accepting" (in `await websocket.accept()`),
\*                 "streaming" (in `await websocket.receive_text()`), "analyzing"
\*                 (in the finally block, in `await analyze_meeting`), "closing"
\*                 (in `await close_session`), "closed" (returned)
\*   client_state  websocket.client_state
\*   close_code    the code of the close frame the handler sent, 0: none
\*   session       the session start_session returned to the handler, which does
\*                 not keep it: 0 once the object is freed
\*   awaiting      the session whose close() the handler's close_session awaits
\*   analyses      the calls of analyze_meeting the handler has made
\*   analysis_entries  the entries the pending analyze_meeting call was given
GatewayHandler ==
    [ pc |-> "authenticating", client_state |-> "connecting", stt_started |-> FALSE,
      close_code |-> 0, session |-> 0, awaiting |-> 0,
      analyses |-> 0, analysis_entries |-> <<>> ]

\* the handlers without their references to freed session objects
forget(g, heap) ==
    [c \in DOMAIN g |->
        IF g[c].session \in DOMAIN heap THEN g[c] ELSE [g[c] EXCEPT !.session = 0]]

\* the end of the finally block: clear_meeting has run, the close frame goes out
\* if the client has not disconnected
handler_finished(h) ==
    [h EXCEPT !.pc = "closed", !.awaiting = 0, !.analysis_entries = <<>>,
              !.close_code = IF h.client_state = "connected" THEN WS_CLOSE_NORMAL ELSE @]

\* an analysis input that is the rolling view, empty or not
analysis_input_recent_only(bufs, m, now) ==
    LET recent == get_recent_entries(bufs, m, now)
        full == get_full_entries(recent.buffers, m)
    IN  [ buffers |-> full.buffers, recent_entries |-> recent.ret,
          full_entries |-> full.ret, analysis_entries |-> recent.ret ]

\* the head of the finally block: get_recent_entries, then get_full_entries
\* (neither raises), and the entries analyze_meeting is called with: the recent
\* ones unless there are none, then the full ones
analysis_input(bufs, m, now) ==
    LET recent == get_recent_entries(bufs, m, now)
        full == get_full_entries(recent.buffers, m)
    IN  [ buffers |-> full.buffers, recent_entries |-> recent.ret,
          full_entries |-> full.ret,
          analysis_entries |-> IF recent.ret # <<>> THEN recent.ret ELSE full.ret ]

\* the reading of time.time()*1000 _handle_deepgram_message stamps a result with
ProviderClock == {30000}

\* the task candidates of an analysis
AnalysisTasks == <<"task">>

\* a finally block that leaves the session alone when the analysis raised
finally_block_skip_on_failure(h, heap, registry, cbs, m, outcome) ==
    LET r == IF h.stt_started /\ outcome # "failure"
             THEN close_session(heap, registry, cbs, m)
             ELSE [sess |-> heap, sessions |-> registry, callbacks |-> cbs, session |-> 0]
    IN  [ analysis_tasks |-> IF outcome = "tasks" THEN AnalysisTasks ELSE <<>>,
          detected |-> <<>>,
          sess |-> r.sess, sessions |-> r.sessions, callbacks |-> r.callbacks,
          session |-> r.session ]

\* The finally block from the return of analyze_meeting to the call of
\* close_session.  An analysis that raised counts as None, and None as no tasks;
\* summary and tasks are logged and printed, and nothing is handed to
\* emit_task_detected (detected: the candidates handed over); then
\* close_session runs if the session had been started.
finally_block(h, heap, registry, cbs, m, outcome) ==
    LET r == IF h.stt_started
             THEN close_session(heap, registry, cbs, m)
             ELSE [sess |-> heap, sessions |-> registry, callbacks |-> cbs, session |-> 0]
    IN  [ analysis_tasks |-> IF outcome = "tasks" THEN AnalysisTasks ELSE <<>>,
          detected |-> <<>>,
          sess |-> r.sess, sessions |-> r.sessions, callbacks |-> r.callbacks,
          session |-> r.session ]

\* the transcripts _handle_deepgram_message hands to the callback: stripped, not empty
ProviderTexts == {str_strip(t) : t \in RawTexts} \ {<<>>}

\* handle_transcript on a payload while the client is connected: the payload is
\* forwarded (a failing send_json is logged); a final result goes to
\* add_final_transcript and, if that returns an entry, a 'final_transcript'
\* frame with the entry follows; an interim result whose stripped text is not
\* empty goes to add_partial_transcript.  frames: what is sent to the client.
handle_transcript(bufs, m, payload) ==
    LET partial_text == str_strip(payload.text)
        r == IF payload.is_final
             THEN add_final_transcript(bufs, m, payload.text, payload.timestamp)
             ELSE IF partial_text # <<>>
             THEN add_partial_transcript(bufs, m, partial_text, payload.timestamp)
             ELSE [buffers |-> bufs, ret |-> <<>>]
        forwarded == [type |-> "transcript", text |-> payload.text,
                      timestamp |-> payload.timestamp]
    IN  [ buffers |-> r.buffers, ret |-> r.ret,
          frames |-> IF payload.is_final /\ r.ret # <<>>
                     THEN << forwarded,
                             [type |-> "final_transcript", text |-> r.ret[1].text,
                              timestamp |-> r.ret[1].timestamp] >>
                     ELSE << forwarded >> ]

----------------------------------------------------------------------------
(* websocket_manager.py: WebSocketManager; websocket.py: notification_socket *)

\* the uid in the token a notification websocket presents
UserOf(w) == IF w = "w3" THEN "u2" ELSE "u1"

\* A notification websocket as its connection attempt arrives.
\*   state     "new", "registered" (its handler is in the receive loop), "gone"
\*             (its handler has returned: rejected, or unregistered)
\*   broken    the client has vanished and the handler has not noticed yet:
\*             send_text raises
\*   received  the messages send_text delivered
NotificationSocket == [state |-> "new", broken |-> FALSE, received |-> 0]

\* An emit_to_user call before it starts: targets is its snapshot, i the index of
\* the next target, stale the websockets whose send raised, delivered the others
EmitCall ==
    [pc |-> "idle", user |-> "u1", targets |-> <<>>, i |-> 0, stale |-> {}, delivered |-> {}]

HubEvent(op, e, user, result) == [op |-> op, emit |-> e, user |-> user, result |-> result]

\* self._connections.get(user_id, set())
Bucket(conns, u) == IF u \in DOMAIN conns THEN conns[u] ELSE {}

\* list(set): the elements in some order
Orders(S) == {f \in [1..Cardinality(S) -> S] : \A x \in S : \E i \in DOMAIN f : f[i] = x}

\* register: setdefault(user_id, set()).add(websocket)
register(conns, u, w) == DictSet(conns, u, Bucket(conns, u) \cup {w})

\* under the lock: discard the websockets from the user's bucket, pop the bucket
\* when it is left empty; nothing when there is no bucket
discard_all(conns, u, ws) ==
    IF Bucket(conns, u) = {} THEN conns
    ELSE IF conns[u] \ ws = {} THEN DictPop(conns, u)
    ELSE DictSet(conns, u, conns[u] \ ws)

unregister(conns, u, w) == discard_all(conns, u, {w})

\* an emit_to_user that keeps self._lock while it sends
lock_holders_sending(ems) == {e \in DOMAIN ems : ems[e].pc = "sending"}

\* The emit_to_user calls that hold self._lock while they are suspended.  The
\* lock is taken for the snapshot and released before the first send_text, and
\* taken again only after the last one; register and unregister do not await
\* under it: no call is ever suspended holding it.
lock_holders(ems) == {e \in DOMAIN ems : FALSE}

\* an emit_to_user that takes its snapshot with setdefault
emit_snapshot_setdefault(conns, u) ==
    [connections |-> DictSet(conns, u, Bucket(conns, u)), targets |-> Bucket(conns, u)]

\* emit_to_user, under the lock: the snapshot of the user's bucket
emit_snapshot(conns, u) == [connections |-> conns, targets |-> Bucket(conns, u)]

\* an emit_to_user that drops the user's whole bucket when a send has failed
emit_remove_stale_bucket(conns, u, stale) ==
    IF stale = {} THEN conns ELSE discard_all(conns, u, Bucket(conns, u))

\* emit_to_user, after the loop: `if stale:` the stale websockets are discarded
emit_remove_stale(conns, u, stale) ==
    IF stale = {} THEN conns ELSE discard_all(conns, u, stale)

\* ws.send_text raises on a websocket whose client is gone
send_fails(h) == h.broken \/ h.state # "registered"

----------------------------------------------------------------------------
(* task_approval_service.py: TaskApprovalService; the membership documents *)
(* org_service.py and team_service.py write                                *)

VALID_TEAM_ROLES == {"MANAGER", "EMPLOYEE"}

UntitledTask == <<"U", "n", "t", "i", "t", "l", "e", "d", " ", "T", "a", "s", "k">>

\* one candidate of _normalize_task_candidates: the stripped title or the
\* default one, the detectedAt stamp, the status the approved and rejected flags
\* of the candidate give it
normalize_candidate(c) ==
    [ title |-> IF str_strip(c.title) = <<>> THEN UntitledTask ELSE str_strip(c.title),
      detectedAt |-> c.detectedAt,
      status |-> IF c.approved THEN "APPROVED"
                 ELSE IF c.rejected THEN "REJECTED" ELSE "PENDING",
      approvedTaskId |-> 0 ]

\* the sort key of _normalize_task_candidates: item.get("detectedAt") or now_ms
sort_key(item, now_ms) == IF item.detectedAt = 0 THEN now_ms ELSE item.detectedAt

\* list.sort(key = ...): stable insertion of item into a sorted list
RECURSIVE insert_sorted(_, _, _)
insert_sorted(sorted, item, now_ms) ==
    IF sorted = <<>> THEN <<item>>
    ELSE IF sort_key(sorted[Len(sorted)], now_ms) <= sort_key(item, now_ms)
         THEN Append(sorted, item)
    ELSE Append(insert_sorted(SubSeq(sorted, 1, Len(sorted) - 1), item, now_ms),
                sorted[Len(sorted)])

RECURSIVE sort_by_detected_at(_, _)
sort_by_detected_at(items, now_ms) ==
    IF items = <<>> THEN <<>>
    ELSE insert_sorted(sort_by_detected_at(SubSeq(items, 1, Len(items) - 1), now_ms),
                       items[Len(items)], now_ms)

\* _normalize_task_candidates: one item per candidate, sorted by the sort key
normalize_task_candidates(task_candidates, now_ms) ==
    sort_by_detected_at(
        [i \in 1..Len(task_candidates) |-> normalize_candidate(task_candidates[i])], now_ms)

\* _all_candidates_processed and _pending_candidate_count
all_candidates_processed(task_candidates) ==
    \A i \in 1..Len(task_candidates) : task_candidates[i].status \in {"APPROVED", "REJECTED"}
pending_candidate_count(task_candidates) ==
    Cardinality({i \in 1..Len(task_candidates) :
                    task_candidates[i].status \notin {"APPROVED", "REJECTED"}})

\* _store_pending_approval_sync: a new document with status PENDING; its id is
\* its position in the collection, its createdAt the server's time, later than
\* that of every document stored before
store_pending_approval(store, org_id, meeting_id, team_id, task_candidates) ==
    [ pending |-> Append(store, [ pendingId |-> Len(store) + 1, orgId |-> org_id,
                                  meetingId |-> meeting_id,
                                  teamId |-> team_id, taskCandidates |-> task_candidates,
                                  status |-> "PENDING", createdAt |-> Len(store) + 1 ]),
      pending_id |-> Len(store) + 1 ]

\* the org_members documents of an organization: those of OurOrg are the
\* variable org_members, no user of the model is a member of another one
members_of(org, org_id) == IF org_id = OurOrg THEN org ELSE <<>>

\* _get_team_manager_uids_sync: the MANAGERs of the team, if a team is given,
\* and the ORG_ADMINs of the organization
get_team_manager_uids(org, teams, team_id) ==
    (IF team_id # NoTeam
     THEN {k[2] : k \in {k \in DOMAIN teams : k[1] = team_id /\ teams[k] = "MANAGER"}}
     ELSE {})
    \cup {u \in DOMAIN org : org[u] = "ORG_ADMIN"}

\* what emit_task_detected returns; pendingId 0: the key is absent
EmitResult(sent, reason, pending_id, notified) ==
    [sent |-> sent, reason |-> reason, pendingId |-> pending_id, managersNotified |-> notified]
NoResult == EmitResult(FALSE, "", 0, 0)

\* an emit_task_detected call: not under way (pc "idle"), or suspended in the
\* thread that looks the managers up (pc "lookup")
EmitTaskDetectedCall ==
    [pc |-> "idle", org_id |-> OurOrg, meeting_id |-> "m1", team_id |-> NoTeam, pending_id |-> 0]

\* emit_task_detected up to the first lookup: without candidates it returns at
\* once, otherwise the normalized candidates are stored
emit_task_detected(store, org_id, meeting_id, team_id, task_candidates, now_ms) ==
    IF task_candidates = <<>>
    THEN [ returned |-> TRUE, result |-> EmitResult(FALSE, "No task candidates", 0, 0),
           pending |-> store, pending_id |-> 0 ]
    ELSE LET r == store_pending_approval(store, org_id, meeting_id, team_id,
                                         normalize_task_candidates(task_candidates, now_ms))
         IN  [ returned |-> FALSE, result |-> NoResult,
               pending |-> r.pending, pending_id |-> r.pending_id ]

\* emit_task_detected from the lookup on: without managers it reports that
\* nothing was sent, otherwise one emit_to_user per manager, each counted when
\* it returns
emit_task_detected_notify(org, teams, call) ==
    LET manager_uids == get_team_manager_uids(members_of(org, call.org_id), teams, call.team_id)
    IN  IF manager_uids = {}
        THEN EmitResult(FALSE, "No managers found", call.pending_id, 0)
        ELSE EmitResult(TRUE, "", call.pending_id, Cardinality(manager_uids))

\* _get_user_managed_teams and _is_org_admin
get_user_managed_teams(teams, user_id) ==
    {k[1] : k \in {k \in DOMAIN teams : k[2] = user_id /\ teams[k] = "MANAGER"}}
is_org_admin(org, user_id) == user_id \in DOMAIN org /\ org[user_id] = "ORG_ADMIN"

\* _is_manager: ORG_ADMIN of the organization, or MANAGER of the team if the
\* approval has one
is_manager(org, teams, org_id, team_id, user_id) ==
    \/ is_org_admin(members_of(org, org_id), user_id)
    \/ /\ team_id # NoTeam
       /\ <<team_id, user_id>> \in DOMAIN teams
       /\ teams[<<team_id, user_id>>] = "MANAGER"

\* what an approval or rejection returns: the HTTP error raised, "" if none;
\* the ids of the tasks created; the number of candidates rejected; the number
\* still unresolved (batch operations only)
ResolveResult(error, approved_task_ids, rejected_count, remaining) ==
    [ error |-> error, approvedTaskIds |-> approved_task_ids,
      rejectedCount |-> rejected_count, remaining |-> remaining ]
NoResolve == ResolveResult("", <<>>, 0, 0)

\* a worker thread of asyncio.to_thread running _approve_task_sync,
\* _reject_task_sync, _approve_all_tasks_sync or _reject_all_tasks_sync: free
\* (pc "idle"), or holding the candidates it read and changed, about to write
\* them to the document (pc "update")
ResolveCall ==
    [pc |-> "idle", op |-> "none", pending_id |-> 0, task_candidates |-> <<>>,
     result |-> NoResolve]

\* the same checks with the manager check first
resolve_checks_manager_first(store, org, teams, pending_id, task_index, user_id) ==
    IF pending_id \notin 1..Len(store) THEN "NotFound"
    ELSE IF ~is_manager(org, teams, store[pending_id].orgId, store[pending_id].teamId, user_id)
    THEN "Forbidden"
    ELSE IF task_index < 0 \/ task_index >= Len(store[pending_id].taskCandidates)
    THEN "InvalidIndex"
    ELSE ""

\* the checks of _approve_task_sync and _reject_task_sync, in their order: the
\* document exists (404), the index is one of its candidates (400), the user
\* is a manager (403); "" when all pass. Indexes count from 0.
resolve_checks(store, org, teams, pending_id, task_index, user_id) ==
    IF pending_id \notin 1..Len(store) THEN "NotFound"
    ELSE IF task_index < 0 \/ task_index >= Len(store[pending_id].taskCandidates)
    THEN "InvalidIndex"
    ELSE IF ~is_manager(org, teams, store[pending_id].orgId, store[pending_id].teamId, user_id)
    THEN "Forbidden"
    ELSE ""

\* the checks of _approve_all_tasks_sync and _reject_all_tasks_sync
resolve_all_checks(store, org, teams, pending_id, user_id) ==
    IF pending_id \notin 1..Len(store) THEN "NotFound"
    ELSE IF ~is_manager(org, teams, store[pending_id].orgId, store[pending_id].teamId, user_id)
    THEN "Forbidden"
    ELSE ""

\* _create_task_from_approval: a new document of the tasks collection; its id
\* is its position in the collection (the caller gives the candidate the id as
\* its approvedTaskId)
create_task_from_approval(tks, doc, candidate) ==
    Append(tks, [ taskId |-> Len(tks) + 1, orgId |-> doc.orgId, teamId |-> doc.teamId,
                  meetingId |-> doc.meetingId, title |-> candidate.title ])

\* what a failed operation leaves: nothing created, nothing to write
resolve_failed(tks, error) ==
    [ error |-> error, tasks |-> tks, task_candidates |-> <<>>, writes |-> FALSE,
      result |-> ResolveResult(error, <<>>, 0, 0) ]

\* _approve_task_sync up to pending_ref.update: the checks, the task created
\* from the candidate, the candidate marked in the thread's copy of the list
approve_task(store, tks, org, teams, pending_id, task_index, user_id) ==
    LET error == resolve_checks(store, org, teams, pending_id, task_index, user_id)
    IN  IF error # "" THEN resolve_failed(tks, error)
        ELSE LET doc == store[pending_id]
                 task_id == Len(tks) + 1
             IN  [ error |-> "",
                   tasks |-> create_task_from_approval(tks, doc,
                                                       doc.taskCandidates[task_index + 1]),
                   task_candidates |->
                       [doc.taskCandidates EXCEPT ![task_index + 1] =
                           [@ EXCEPT !.status = "APPROVED", !.approvedTaskId = task_id]],
                   writes |-> TRUE,
                   result |-> ResolveResult("", <<task_id>>, 0, 0) ]

\* _reject_task_sync up to pending_ref.update
reject_task(store, tks, org, teams, pending_id, task_index, user_id) ==
    LET error == resolve_checks(store, org, teams, pending_id, task_index, user_id)
    IN  IF error # "" THEN resolve_failed(tks, error)
        ELSE [ error |-> "",
               tasks |-> tks,
               task_candidates |->
                   [store[pending_id].taskCandidates EXCEPT ![task_index + 1] =
                       [@ EXCEPT !.status = "REJECTED"]],
               writes |-> TRUE,
               result |-> ResolveResult("", <<>>, 1, 0) ]

\* the loop of _approve_all_tasks_sync over the candidates from position i on:
\* a resolved candidate is skipped, a task is created for any other one
RECURSIVE approve_from(_, _, _, _, _)
approve_from(tks, doc, task_candidates, created_task_ids, i) ==
    IF i > Len(task_candidates)
    THEN [tasks |-> tks, task_candidates |-> task_candidates,
          created_task_ids |-> created_task_ids]
    ELSE IF task_candidates[i].status \in {"APPROVED", "REJECTED"}
    THEN approve_from(tks, doc, task_candidates, created_task_ids, i + 1)
    ELSE approve_from(create_task_from_approval(tks, doc, task_candidates[i]), doc,
                      [task_candidates EXCEPT ![i] =
                          [@ EXCEPT !.status = "APPROVED", !.approvedTaskId = Len(tks) + 1]],
                      Append(created_task_ids, Len(tks) + 1), i + 1)

\* the loop of _approve_all_tasks_sync from the first candidate on
approve_loop(tks, doc) == approve_from(tks, doc, doc.taskCandidates, <<>>, 1)

\* _approve_all_tasks_sync up to pending_ref.update; without a task created it
\* returns before the update
approve_all_tasks(store, tks, org, teams, pending_id, user_id) ==
    LET error == resolve_all_checks(store, org, teams, pending_id, user_id)
    IN  IF error # "" THEN resolve_failed(tks, error)
        ELSE LET r == approve_loop(tks, store[pending_id])
             IN  [ error |-> "", tasks |-> r.tasks, task_candidates |-> r.task_candidates,
                   writes |-> r.created_task_ids # <<>>,
                   result |-> ResolveResult("", r.created_task_ids, 0,
                                            pending_candidate_count(r.task_candidates)) ]

\* _reject_all_tasks_sync up to pending_ref.update: the targets are the given
\* indexes, all of which must be unresolved candidates (400 otherwise), or
\* every unresolved candidate; without a target it returns before the update
reject_all_tasks(store, tks, org, teams, pending_id, task_indexes, user_id) ==
    LET error == resolve_all_checks(store, org, teams, pending_id, user_id)
    IN  IF error # "" THEN resolve_failed(tks, error)
        ELSE LET task_candidates == store[pending_id].taskCandidates
                 available_indexes ==
                     {i - 1 : i \in {i \in 1..Len(task_candidates) :
                                 task_candidates[i].status \notin {"APPROVED", "REJECTED"}}}
                 target_indexes == IF task_indexes.given THEN task_indexes.indexes
                                   ELSE available_indexes
             IN  IF target_indexes \ available_indexes # {}
                 THEN resolve_failed(tks, "InvalidIndex")
                 ELSE LET rejected ==
                              [i \in 1..Len(task_candidates) |->
                                  IF i - 1 \in target_indexes
                                  THEN [task_candidates[i] EXCEPT !.status = "REJECTED"]
                                  ELSE task_candidates[i]]
                      IN  [ error |-> "", tasks |-> tks, task_candidates |-> rejected,
                            writes |-> target_indexes # {},
                            result |-> ResolveResult("", <<>>, Cardinality(target_indexes),
                                                     pending_candidate_count(rejected)) ]

\* what the call returns after pending_ref.update: approve_task and
\* approve_all_tasks go on to asyncio.create_task, which raises RuntimeError in
\* a worker thread, where no event loop runs; the rejections return their result
after_update(op, result) ==
    IF op \in {"approve_task", "approve_all_tasks"}
    THEN ResolveResult("RuntimeError", <<>>, 0, 0)
    ELSE result

\* an approve/reject call that returned: the operation and what it returned
ResolveEvent(op, result) == [op |-> op, result |-> result]

\* pending_ref.update: the thread's copy of the candidates replaces the list of
\* the document, whose status becomes COMPLETED if the copy has no unresolved
\* candidate and PENDING otherwise
update_pending_approval(store, pending_id, task_candidates) ==
    [store EXCEPT ![pending_id] =
        [@ EXCEPT !.taskCandidates = task_candidates,
                  !.status = IF all_candidates_processed(task_candidates)
                             THEN "COMPLETED" ELSE "PENDING"]]

\* results.sort(key = createdAt, reverse = True): stable insertion of item
\* into a list sorted newest first
RECURSIVE insert_newest_first(_, _)
insert_newest_first(sorted, item) ==
    IF sorted = <<>> THEN <<item>>
    ELSE IF sorted[Len(sorted)].createdAt >= item.createdAt THEN Append(sorted, item)
    ELSE Append(insert_newest_first(SubSeq(sorted, 1, Len(sorted) - 1), item),
                sorted[Len(sorted)])

RECURSIVE sort_newest_first(_)
sort_newest_first(items) ==
    IF items = <<>> THEN <<>>
    ELSE insert_newest_first(sort_newest_first(SubSeq(items, 1, Len(items) - 1)),
                             items[Len(items)])

\* the same without the sort: the documents in the order of the store
get_pending_approvals_unsorted(store, org, teams, user_id, org_id) ==
    LET visible(doc) ==
            /\ doc.orgId = org_id
            /\ doc.status \in {"PENDING", "PARTIAL"}
            /\ \/ is_org_admin(members_of(org, org_id), user_id)
               \/ doc.teamId \in get_user_managed_teams(teams, user_id)
               \/ doc.teamId = NoTeam
        results == SelectSeq(store, visible)
    IN  [i \in 1..Len(results) |-> results[i].pendingId]

\* _get_pending_approvals_sync: the ids of the organization's documents with
\* status PENDING or PARTIAL that are of no team, of a team the user manages,
\* or any if the user is ORG_ADMIN, sorted by createdAt, the newest first
get_pending_approvals(store, org, teams, user_id, org_id) ==
    LET visible(doc) ==
            /\ doc.orgId = org_id
            /\ doc.status \in {"PENDING", "PARTIAL"}
            /\ \/ is_org_admin(members_of(org, org_id), user_id)
               \/ doc.teamId \in get_user_managed_teams(teams, user_id)
               \/ doc.teamId = NoTeam
        results == sort_newest_first(SelectSeq(store, visible))
    IN  [i \in 1..Len(results) |-> results[i].pendingId]

\* a step of the approval workflow: the operation, the user it is about, what
\* emit_task_detected returned, what get_pending_approvals returned
AppEvent(op, user, result, returned) ==
    [op |-> op, user |-> user, result |-> result, returned |-> returned]

----------------------------------------------------------------------------
(* Transcript Buffer: initial state and actions *)

BufferEvent(op, m, text, ret) == [op |-> op, meeting |-> m, text |-> text, ret |-> ret]

\* the services as the modules are loaded: no buffer, no session, no callback;
\* the handlers as their connection attempts arrive
Init ==
    /\ buffers = <<>>
    /\ bufEvent = BufferEvent("none", "m1", <<>>, <<>>)
    /\ sess = <<>>
    /\ sessions = <<>>
    /\ callbacks = <<>>
    /\ nextChunk = 1
    /\ sttEvent = SttEvent("none", "m1", 0, 0, "ok")
    /\ gw = [c \in Connections |-> GatewayHandler]
    /\ connections = <<>>
    /\ handles = [w \in Handles |-> NotificationSocket]
    /\ emits = [e \in Emitters |-> EmitCall]
    /\ hubEvent = HubEvent("none", 0, "u1", "ok")
    /\ org_members = <<>>
    /\ team_members = <<>>
    /\ pending = <<>>
    /\ emitCall = EmitTaskDetectedCall
    /\ appEvent = AppEvent("none", "u1", NoResult, <<>>)
    /\ tasks = <<>>
    /\ calls = [k \in Threads |-> ResolveCall]
    /\ resEvent = ResolveEvent("none", NoResolve)

(* One action per public method of TranscriptBufferService, called directly *)

InitMeeting(m) ==
    /\ buffers' = init_meeting(buffers, m)
    /\ bufEvent' = BufferEvent("init_meeting", m, <<>>, <<>>)
    /\ UNCHANGED <<sttVars, gwVars, hubVars, appVars>>

AddFinalTranscript(m, text, timestamp) ==
    LET r == add_final_transcript(buffers, m, text, timestamp)
    IN  /\ (r.ret = <<>> \/ TotalFull < MaxFull)
        /\ buffers' = r.buffers
        /\ bufEvent' = BufferEvent("add_final_transcript", m, text, r.ret)
        /\ UNCHANGED <<sttVars, gwVars, hubVars, appVars>>

AddPartialTranscript(m, text, timestamp) ==
    LET r == add_partial_transcript(buffers, m, text, timestamp)
    IN  /\ (r.ret = <<>> \/ TotalFull < MaxFull)
        /\ buffers' = r.buffers
        /\ bufEvent' = BufferEvent("add_partial_transcript", m, text, r.ret)
        /\ UNCHANGED <<sttVars, gwVars, hubVars, appVars>>

GetRecentEntries(m, now) ==
    LET r == get_recent_entries(buffers, m, now)
    IN  /\ buffers' = r.buffers
        /\ bufEvent' = BufferEvent("get_recent_entries", m, <<>>, r.ret)
        /\ UNCHANGED <<sttVars, gwVars, hubVars, appVars>>

GetFullEntries(m) ==
    LET r == get_full_entries(buffers, m)
    IN  /\ buffers' = r.buffers
        /\ bufEvent' = BufferEvent("get_full_entries", m, <<>>, r.ret)
        /\ UNCHANGED <<sttVars, gwVars, hubVars, appVars>>

ClearMeeting(m) ==
    /\ buffers' = clear_meeting(buffers, m)
    /\ bufEvent' = BufferEvent("clear_meeting", m, <<>>, <<>>)
    /\ UNCHANGED <<sttVars, gwVars, hubVars, appVars>>

BufferNext ==
    \/ \E m \in Meetings : InitMeeting(m)
    \/ \E m \in Meetings, text \in RawTexts, ts \in Timestamps : AddFinalTranscript(m, text, ts)
    \/ \E m \in Meetings, text \in RawTexts, ts \in Timestamps : AddPartialTranscript(m, text, ts)
    \/ \E m \in Meetings, now \in ClockValues : GetRecentEntries(m, now)
    \/ \E m \in Meetings : GetFullEntries(m)
    \/ \E m \in Meetings : ClearMeeting(m)

SpecBuffer == Init /\ [][BufferNext]_vars

----------------------------------------------------------------------------
(* STT: the steps of one session's worker task, and close() resuming *)

\* the worker task's own steps are no call of the API: they all leave this event
WorkerEvent == SttEvent("worker", "m1", 0, 0, "ok")

ConnectOk(s) ==
    /\ s \in DOMAIN sess
    /\ sess[s].worker = "connecting"
    /\ sess' = collect([sess EXCEPT ![s] = connect_ok(@)], sessions)
    /\ sttEvent' = WorkerEvent
    /\ UNCHANGED <<sessions, callbacks, nextChunk, bufVars, gwVars, hubVars, appVars>>

ConnectFailed(s) ==
    /\ s \in DOMAIN sess
    /\ sess[s].worker = "connecting"
    /\ sess' = collect([sess EXCEPT ![s] = connect_failed(@)], sessions)
    /\ sttEvent' = WorkerEvent
    /\ UNCHANGED <<sessions, callbacks, nextChunk, bufVars, gwVars, hubVars, appVars>>

SenderGet(s, limit) ==
    /\ s \in DOMAIN sess
    /\ sess[s].worker = "streaming"
    /\ sess[s].sender = "running"
    /\ sess[s].inflight = <<>>
    /\ sess[s].audio_queue # <<>>
    /\ (Head(sess[s].audio_queue) = NoneItem \/ sess[s].n_sent < limit)
    /\ sess' = collect([sess EXCEPT ![s] = sender_get(@)], sessions)
    /\ sttEvent' = WorkerEvent
    /\ UNCHANGED <<sessions, callbacks, nextChunk, bufVars, gwVars, hubVars, appVars>>

SenderSend(s) ==
    /\ s \in DOMAIN sess
    /\ sess[s].worker = "streaming"
    /\ sess[s].inflight # <<>>
    /\ sess' = collect([sess EXCEPT ![s] = sender_send(@)], sessions)
    /\ sttEvent' = WorkerEvent
    /\ UNCHANGED <<sessions, callbacks, nextChunk, bufVars, gwVars, hubVars, appVars>>

ReceiverMessage(s, kind, outcome) ==
    /\ s \in DOMAIN sess
    /\ sess[s].worker = "streaming"
    /\ sess[s].receiver = "running"
    /\ sess[s].conn = "open"
    /\ sess' = collect([sess EXCEPT ![s] = receive_message(@, kind, outcome)], sessions)
    /\ sttEvent' = IF kind \in {"partial", "final"} /\ outcome = "raises"
                   THEN SttEvent("callback", sess[s].meeting_id, s, 0, "raised")
                   ELSE WorkerEvent
    /\ UNCHANGED <<sessions, callbacks, nextChunk, bufVars, gwVars, hubVars, appVars>>

ReceiverEnd(s) ==
    /\ s \in DOMAIN sess
    /\ sess[s].worker = "streaming"
    /\ sess[s].receiver = "running"
    /\ sess[s].conn = "closed"
    /\ sess' = collect([sess EXCEPT ![s] = receiver_end(@)], sessions)
    /\ sttEvent' = WorkerEvent
    /\ UNCHANGED <<sessions, callbacks, nextChunk, bufVars, gwVars, hubVars, appVars>>

ProviderClose(s) ==
    /\ s \in DOMAIN sess
    /\ sess[s].worker = "streaming"
    /\ sess[s].conn = "open"
    /\ sess' = collect([sess EXCEPT ![s] = provider_close(@)], sessions)
    /\ sttEvent' = WorkerEvent
    /\ UNCHANGED <<sessions, callbacks, nextChunk, bufVars, gwVars, hubVars, appVars>>

WorkerFinish(s) ==
    /\ s \in DOMAIN sess
    /\ sess[s].worker = "streaming"
    /\ sess[s].sender = "done"
    /\ sess[s].receiver = "done"
    /\ sess' = collect([sess EXCEPT ![s] = worker_finish(@)], sessions)
    /\ sttEvent' = WorkerEvent
    /\ UNCHANGED <<sessions, callbacks, nextChunk, bufVars, gwVars, hubVars, appVars>>

CloseReturn(s) ==
    /\ s \in DOMAIN sess
    /\ sess[s].close_waiting
    /\ sess[s].worker = "done"
    /\ sess' = collect([sess EXCEPT ![s] = close_return(@)], sessions)
    /\ sttEvent' = SttEvent("close_return", sess[s].meeting_id, s, 0, "returned")
    /\ UNCHANGED <<sessions, callbacks, nextChunk, bufVars, gwVars, hubVars, appVars>>

WorkerStep(s, limit) ==
    \/ ConnectOk(s)
    \/ ConnectFailed(s)
    \/ SenderGet(s, limit)
    \/ SenderSend(s)
    \/ \E kind \in MessageKinds, outcome \in CallbackOutcomes : ReceiverMessage(s, kind, outcome)
    \/ ReceiverEnd(s)
    \/ ProviderClose(s)
    \/ WorkerFinish(s)
    \/ CloseReturn(s)

----------------------------------------------------------------------------
\* the state right after start_session("m1", "cb1") on a fresh service: the one
\* session constructed, held by the registry
SessionInit ==
    /\ sess = <<DeepgramStreamingSession("m1", "cb1")>>
    /\ sessions = [m \in {"m1"} |-> 1]
    /\ callbacks = [m \in {"m1"} |-> "cb1"]
    /\ nextChunk = 1
    /\ sttEvent = SttEvent("none", "m1", 0, 0, "ok")
    /\ buffers = <<>>
    /\ bufEvent = BufferEvent("none", "m1", <<>>, <<>>)
    /\ gw = [c \in Connections |-> GatewayHandler]
    /\ connections = <<>>
    /\ handles = [w \in Handles |-> NotificationSocket]
    /\ emits = [e \in Emitters |-> EmitCall]
    /\ hubEvent = HubEvent("none", 0, "u1", "ok")
    /\ org_members = <<>>
    /\ team_members = <<>>
    /\ pending = <<>>
    /\ emitCall = EmitTaskDetectedCall
    /\ appEvent = AppEvent("none", "u1", NoResult, <<>>)
    /\ tasks = <<>>
    /\ calls = [k \in Threads |-> ResolveCall]
    /\ resEvent = ResolveEvent("none", NoResolve)

----------------------------------------------------------------------------
(* STT: the service *)

\* the chunk labels held in some queue
UsedLabels(heap) ==
    UNION { { heap[s].audio_queue[i] : i \in 1..Len(heap[s].audio_queue) } : s \in DOMAIN heap }

StartSession(m, callback) ==
    LET r == start_session(sess, sessions, callbacks, m, callback)
    IN  /\ Cardinality(DOMAIN collect(r.sess, r.sessions)) <= MaxSessions
        /\ sess' = collect(r.sess, r.sessions)
        /\ sessions' = r.sessions
        /\ callbacks' = r.callbacks
        /\ sttEvent' = SttEvent("start_session", m, r.session, 0, r.result)
        /\ UNCHANGED <<nextChunk, bufVars, gwVars, hubVars, appVars>>

SendAudioChunk(m, chunk) ==
    LET r == send_audio_chunk(sess, sessions, callbacks, m, chunk)
    IN  /\ nextChunk <= MaxChunks
        /\ Cardinality(DOMAIN collect(r.sess, r.sessions)) <= MaxSessions
        /\ sess' = collect(r.sess, r.sessions)
        /\ sessions' = r.sessions
        /\ nextChunk' = IF chunk \in UsedLabels(r.sess) THEN nextChunk + 1 ELSE nextChunk
        /\ sttEvent' = SttEvent("send_audio_chunk", m, r.session, chunk, r.result)
        /\ UNCHANGED <<callbacks, bufVars, gwVars, hubVars, appVars>>

CloseSession(m) ==
    LET r == close_session(sess, sessions, callbacks, m)
    IN  /\ sess' = collect(r.sess, r.sessions)
        /\ sessions' = r.sessions
        /\ callbacks' = r.callbacks
        /\ sttEvent' = SttEvent("close_session", m, r.session, 0,
                                IF /\ r.session # 0
                                   /\ ~sess[r.session].stopping
                                   /\ r.sess[r.session].close_waiting
                                THEN "waiting" ELSE "returned")
        /\ UNCHANGED <<nextChunk, bufVars, gwVars, hubVars, appVars>>

CloseAll ==
    LET r == close_all(sess, sessions, callbacks)
    IN  /\ sess' = collect(r.sess, r.sessions)
        /\ sessions' = r.sessions
        /\ callbacks' = r.callbacks
        /\ sttEvent' = SttEvent("close_all", "m1", 0, 0,
                                IF \E s \in DOMAIN sess' : sess'[s].close_waiting
                                THEN "waiting" ELSE "returned")
        /\ UNCHANGED <<nextChunk, bufVars, gwVars, hubVars, appVars>>

SttNext ==
    \/ \E m \in Meetings, callback \in Callbacks : StartSession(m, callback)
    \/ \E m \in Meetings, chunk \in {EmptyChunk, nextChunk} : SendAudioChunk(m, chunk)
    \/ \E m \in Meetings : CloseSession(m)
    \/ CloseAll
    \/ \E s \in SessionIds : WorkerStep(s, MaxChunks)

SpecStt == Init /\ [][SttNext]_vars

\* start_session for a meeting that has no registered session, while one more
\* session object may be alive: the session close_session has unregistered and
\* whose close() it still awaits
RestartSession(m, callback) ==
    LET r == start_session(sess, sessions, callbacks, m, callback)
    IN  /\ m \notin DOMAIN sessions
        /\ Cardinality(DOMAIN collect(r.sess, r.sessions)) <= MaxSessions + 1
        /\ sess' = collect(r.sess, r.sessions)
        /\ sessions' = r.sessions
        /\ callbacks' = r.callbacks
        /\ sttEvent' = SttEvent("start_session", m, r.session, 0, r.result)
        /\ UNCHANGED <<nextChunk, bufVars, gwVars, hubVars, appVars>>

\* SpecRestart: the service with calls that arrive while close_session waits
RestartNext ==
    \/ \E m \in Meetings : RestartSession(m, "cb1")
    \/ \E m \in Meetings : SendAudioChunk(m, nextChunk)
    \/ \E m \in Meetings : CloseSession(m)
    \/ \E s \in 1..(MaxSessions + 2) : WorkerStep(s, MaxChunks)

SpecRestart == Init /\ [][RestartNext]_vars

----------------------------------------------------------------------------
(* STT: one session driven through its own methods, add_audio and close, *)
(* and through close_session                                             *)

AddAudio(s, chunk) ==
    /\ s \in DOMAIN sess
    /\ nextChunk <= MaxSessionChunks
    /\ sess' = [sess EXCEPT ![s] = add_audio(@, chunk)]
    /\ nextChunk' = IF add_audio(sess[s], chunk) = sess[s] THEN nextChunk ELSE nextChunk + 1
    /\ sttEvent' = SttEvent("add_audio", sess[s].meeting_id, s, chunk, "ok")
    /\ UNCHANGED <<sessions, callbacks, bufVars, gwVars, hubVars, appVars>>

Close(s) ==
    /\ s \in DOMAIN sess
    /\ sess' = collect([sess EXCEPT ![s] = close(@)], sessions)
    /\ sttEvent' = SttEvent("close", sess[s].meeting_id, s, 0,
                            IF close(sess[s]).close_waiting /\ ~sess[s].stopping
                            THEN "waiting" ELSE "returned")
    /\ UNCHANGED <<sessions, callbacks, nextChunk, bufVars, gwVars, hubVars, appVars>>

SessionNext ==
    \/ \E chunk \in {EmptyChunk, nextChunk} : AddAudio(1, chunk)
    \/ Close(1)
    \/ CloseSession("m1")
    \/ WorkerStep(1, MaxSends)

SpecSession == SessionInit /\ [][SessionNext]_vars


----------------------------------------------------------------------------
(* The Ingestion Gateway: the handlers, the STT service they call and its *)
(* sessions' worker tasks, the transcript buffer their callbacks fill     *)

\* a connection attempt arrives where an earlier handler has returned
GwNew(c) ==
    /\ gw[c].pc = "closed"
    /\ gw' = forget([gw EXCEPT ![c] = GatewayHandler], sess)
    /\ UNCHANGED <<sttVars, bufVars>>
    /\ UNCHANGED <<hubVars, appVars>>

\* no meeting_id, or the token does not verify: close(1008) before accepting
GwReject(c, meeting_id, token) ==
    /\ gw[c].pc = "authenticating"
    /\ ~handshake(meeting_id, token).accept
    /\ gw' = forget([gw EXCEPT ![c].pc = "closed",
                               ![c].close_code = handshake(meeting_id, token).code], sess)
    /\ UNCHANGED <<sttVars, bufVars>>
    /\ UNCHANGED <<hubVars, appVars>>

\* the token verifies: `await websocket.accept()`
GwAccept(c, meeting_id, token) ==
    /\ gw[c].pc = "authenticating"
    /\ handshake(meeting_id, token).accept
    /\ gw' = forget([gw EXCEPT ![c].pc = "accepting", ![c].client_state = "connected"], sess)
    /\ UNCHANGED <<sttVars, bufVars>>
    /\ UNCHANGED <<hubVars, appVars>>

\* accept() returned: init_meeting, then start_session with the handler's
\* handle_transcript; on RuntimeError close(1013) and return, else the receive loop
StartMeeting(c) ==
    LET m == MeetingOf(c)
        r == start_session(sess, sessions, callbacks, m, c)
        g == forget(gw, sess)
    IN  /\ gw[c].pc = "accepting"
        /\ buffers' = init_meeting(buffers, m)
        /\ bufEvent' = BufferEvent("init_meeting", m, <<>>, <<>>)
        /\ sess' = collect(r.sess, r.sessions)
        /\ sessions' = r.sessions
        /\ callbacks' = r.callbacks
        /\ sttEvent' = SttEvent("start_session", m, r.session, 0, r.result)
        /\ gw' = forget(IF r.result = "ok"
                        THEN [g EXCEPT ![c].pc = "streaming", ![c].stt_started = TRUE,
                                       ![c].session = r.session]
                        ELSE [g EXCEPT ![c].pc = "closed",
                                       ![c].close_code = WS_CLOSE_TRY_LATER],
                        sess')
        /\ UNCHANGED nextChunk
        /\ UNCHANGED <<hubVars, appVars>>

\* the same while at most MaxSessions session objects are alive
GwStart(c) ==
    /\ Cardinality(DOMAIN collect(start_session(sess, sessions, callbacks, MeetingOf(c), c).sess,
                                  start_session(sess, sessions, callbacks, MeetingOf(c), c).sessions))
          <= MaxSessions
    /\ StartMeeting(c)

\* the same while at most MaxSessions sessions have a running _run task: a
\* session may be started while close_session waits to return from another one
GwRestart(c) ==
    /\ Cardinality(Running(collect(start_session(sess, sessions, callbacks, MeetingOf(c), c).sess,
                                   start_session(sess, sessions, callbacks, MeetingOf(c), c).sessions)))
          <= MaxSessions
    /\ StartMeeting(c)

\* one frame of the client in the receive loop: only decoded, non-empty audio
\* reaches send_audio_chunk, whose exceptions are logged
GwFrame(c, kind) ==
    LET m == MeetingOf(c)
        r == receive_frame(sess, sessions, callbacks, m, kind, nextChunk)
    IN  /\ gw[c].pc = "streaming"
        /\ r.next = "continue"
        /\ IF r.forwarded
           THEN /\ nextChunk <= MaxChunks
                /\ Cardinality(DOMAIN collect(r.sess, r.sessions)) <= MaxSessions
                /\ sess' = collect(r.sess, r.sessions)
                /\ sessions' = r.sessions
                /\ nextChunk' = IF nextChunk \in UsedLabels(r.sess)
                                THEN nextChunk + 1 ELSE nextChunk
                /\ sttEvent' = SttEvent("send_audio_chunk", m, r.session, nextChunk, r.result)
                /\ UNCHANGED callbacks
           ELSE UNCHANGED sttVars
        /\ gw' = forget(forget(gw, sess), sess')
        /\ UNCHANGED bufVars
        /\ UNCHANGED <<hubVars, appVars>>

\* the receive loop ends, on WebSocketDisconnect or on another exception; the
\* finally block reads the recent and the full entries and awaits the analysis
GwDisconnect(c, how, now) ==
    LET m == MeetingOf(c)
        r == analysis_input(buffers, m, now)
    IN  /\ gw[c].pc = "streaming"
        /\ how \in FrameKinds
              => receive_frame(sess, sessions, callbacks, m, how, nextChunk).next = "finally"
        /\ buffers' = r.buffers
        /\ bufEvent' = BufferEvent("get_full_entries", m, <<>>, r.full_entries)
        /\ gw' = forget([gw EXCEPT ![c].pc = "analyzing",
                                   ![c].analyses = @ + 1,
                                   ![c].analysis_entries = r.analysis_entries,
                                   ![c].client_state = IF how = "disconnect"
                                                       THEN "disconnected" ELSE @], sess)
        /\ UNCHANGED sttVars
        /\ UNCHANGED <<hubVars, appVars>>

\* the analysis returned: close_session if the session had been started; when its
\* close() has to wait for the worker the handler is suspended, otherwise the
\* buffer is cleared and the handler returns
GwAnalyzed(c, outcome) ==
    LET m == MeetingOf(c)
        r == finally_block(gw[c], sess, sessions, callbacks, m, outcome)
        waits == /\ r.session # 0
                 /\ ~sess[r.session].stopping
                 /\ r.sess[r.session].close_waiting
    IN  /\ gw[c].pc = "analyzing"
        /\ sess' = collect(r.sess, r.sessions)
        /\ sessions' = r.sessions
        /\ callbacks' = r.callbacks
        /\ sttEvent' = SttEvent("close_session", m, r.session, 0,
                                IF waits THEN "waiting" ELSE "returned")
        /\ IF waits
           THEN /\ gw' = forget([gw EXCEPT ![c].pc = "closing", ![c].awaiting = r.session,
                                            ![c].analysis_entries = <<>>], sess')
                /\ UNCHANGED bufVars
           ELSE /\ gw' = forget([gw EXCEPT ![c] = handler_finished(@)], sess')
                /\ buffers' = clear_meeting(buffers, m)
                /\ bufEvent' = BufferEvent("clear_meeting", m, <<>>, <<>>)
        /\ UNCHANGED nextChunk
        /\ UNCHANGED <<hubVars, appVars>>

\* the worker has finished: close() and close_session return, the buffer is
\* cleared and the handler returns
GwClosed(c) ==
    LET m == MeetingOf(c)
        s == gw[c].awaiting
    IN  /\ gw[c].pc = "closing"
        /\ sess[s].worker = "done"
        /\ sess' = collect([sess EXCEPT ![s] = close_return(@)], sessions)
        /\ sttEvent' = SttEvent("close_return", m, s, 0, "returned")
        /\ buffers' = clear_meeting(buffers, m)
        /\ bufEvent' = BufferEvent("clear_meeting", m, <<>>, <<>>)
        /\ gw' = forget([gw EXCEPT ![c] = handler_finished(@)], sess')
        /\ UNCHANGED <<sessions, callbacks, nextChunk>>
        /\ UNCHANGED <<hubVars, appVars>>

\* _receive_loop hands a result to the callback, handle_transcript of the
\* connection that started the session: it returns at once when the client is
\* gone, otherwise it is suspended in send_json
GwDeliver(s, is_final, text, timestamp) ==
    /\ s \in DOMAIN sess
    /\ sess[s].worker = "streaming"
    /\ sess[s].receiver = "running"
    /\ sess[s].conn = "open"
    /\ TotalFull < MaxTranscripts
    /\ sess' = IF gw[sess[s].callback].client_state \in {"connecting", "connected"}
               THEN [sess EXCEPT ![s].receiver = "callback",
                                 ![s].payload = << [is_final |-> is_final, text |-> text,
                                                    timestamp |-> timestamp] >>]
               ELSE sess
    /\ sttEvent' = WorkerEvent
    /\ UNCHANGED <<sessions, callbacks, nextChunk, bufVars, gwVars, hubVars, appVars>>

\* handle_transcript resumes from send_json, whose failure is logged: a final
\* result is stored with add_final_transcript, an interim one with
\* add_partial_transcript; the receive loop goes on
GwCallback(s) ==
    LET m == MeetingOf(sess[s].callback)
        p == sess[s].payload[1]
        r == handle_transcript(buffers, m, p)
    IN  /\ s \in DOMAIN sess
        /\ sess[s].receiver = "callback"
        /\ buffers' = r.buffers
        /\ bufEvent' = BufferEvent(IF p.is_final THEN "add_final_transcript"
                                   ELSE "add_partial_transcript", m, p.text, r.ret)
        /\ sess' = [sess EXCEPT ![s].receiver = "running", ![s].payload = <<>>]
        /\ sttEvent' = WorkerEvent
        /\ UNCHANGED <<sessions, callbacks, nextChunk, gwVars, hubVars, appVars>>

\* the worker task of a session under the gateway
GwWorkerStep(s, limit) ==
    \/ ConnectOk(s)
    \/ ConnectFailed(s)
    \/ SenderGet(s, limit)
    \/ SenderSend(s)
    \/ \E kind \in MessageKinds \ {"partial", "final"} : ReceiverMessage(s, kind, "returns")
    \/ \E is_final \in BOOLEAN, text \in ProviderTexts, timestamp \in ProviderClock :
          GwDeliver(s, is_final, text, timestamp)
    \/ GwCallback(s)
    \/ ReceiverEnd(s)
    \/ ProviderClose(s)
    \/ WorkerFinish(s)

GwNext ==
    \/ \E c \in Connections : GwNew(c)
    \/ \E c \in Connections, meeting_id \in MeetingParams, token \in Tokens :
          GwReject(c, meeting_id, token)
    \/ \E c \in Connections, meeting_id \in MeetingParams, token \in Tokens :
          GwAccept(c, meeting_id, token)
    \/ \E c \in Connections : GwStart(c)
    \/ \E c \in Connections, kind \in FrameKinds : GwFrame(c, kind)
    \/ \E c \in Connections, how \in {"disconnect", "error"} \cup FrameKinds,
             now \in ClockValues :
          GwDisconnect(c, how, now)
    \/ \E c \in Connections, outcome \in AnalysisOutcomes : GwAnalyzed(c, outcome)
    \/ \E c \in Connections : GwClosed(c)
    \/ \E s \in SessionIds : GwWorkerStep(s, MaxChunks)

SpecGateway == Init /\ [][GwNext]_vars

\* SpecReconnect: connections that come, go and come again for the meeting
\* without sending a frame
ReconnectNext ==
    \/ \E c \in Connections : GwNew(c)
    \/ \E c \in Connections, meeting_id \in MeetingParams, token \in Tokens :
          GwReject(c, meeting_id, token)
    \/ \E c \in Connections, meeting_id \in MeetingParams, token \in Tokens :
          GwAccept(c, meeting_id, token)
    \/ \E c \in Connections : GwRestart(c)
    \/ \E c \in Connections, how \in {"disconnect", "error"}, now \in ClockValues :
          GwDisconnect(c, how, now)
    \/ \E c \in Connections, outcome \in AnalysisOutcomes : GwAnalyzed(c, outcome)
    \/ \E c \in Connections : GwClosed(c)
    \/ \E s \in SessionIds : GwWorkerStep(s, MaxChunks)

SpecReconnect == Init /\ [][ReconnectNext]_vars

----------------------------------------------------------------------------
(* The Notification Hub: the notification websockets and the emit calls *)

\* what the hub's steps leave alone
NotHub == <<bufVars, sttVars, gwVars, appVars>>

\* the token does not verify: close(1008), the websocket is never registered
HubReject(w) ==
    /\ handles[w].state = "new"
    /\ handles' = [handles EXCEPT ![w].state = "gone"]
    /\ hubEvent' = HubEvent("reject", 0, UserOf(w), "ok")
    /\ UNCHANGED <<connections, emits, NotHub>>

\* the token verifies: accept, register, the receive loop
HubRegister(w) ==
    /\ handles[w].state = "new"
    /\ lock_holders(emits) = {}
    /\ handles' = [handles EXCEPT ![w].state = "registered"]
    /\ connections' = register(connections, UserOf(w), w)
    /\ hubEvent' = HubEvent("register", 0, UserOf(w), "ok")
    /\ UNCHANGED <<emits, NotHub>>

\* the client vanishes
HubBreak(w) ==
    /\ handles[w].state = "registered"
    /\ ~handles[w].broken
    /\ handles' = [handles EXCEPT ![w].broken = TRUE]
    /\ hubEvent' = HubEvent("break", 0, UserOf(w), "ok")
    /\ UNCHANGED <<connections, emits, NotHub>>

\* receive_text raises: the finally clause unregisters and the handler returns
HubDisconnect(w) ==
    /\ handles[w].state = "registered"
    /\ lock_holders(emits) = {}
    /\ handles' = [handles EXCEPT ![w].state = "gone"]
    /\ connections' = unregister(connections, UserOf(w), w)
    /\ hubEvent' = HubEvent("unregister", 0, UserOf(w), "ok")
    /\ UNCHANGED <<emits, NotHub>>

\* emit_to_user begins: the snapshot; with no target it logs and returns
EmitToUser(e, u, order) ==
    LET r == emit_snapshot(connections, u)
    IN  /\ emits[e].pc = "idle"
        /\ lock_holders(emits) = {}
        /\ order \in Orders(r.targets)
        /\ connections' = r.connections
        /\ emits' = [emits EXCEPT ![e] =
                        [@ EXCEPT !.user = u, !.targets = order, !.i = 1,
                                  !.pc = IF order = <<>> THEN "done" ELSE "sending"]]
        /\ hubEvent' = HubEvent("emit_to_user", e, u,
                                IF order = <<>> THEN "no_listeners" ELSE "sending")
        /\ UNCHANGED <<handles, NotHub>>

\* emit_to_user resumes from a send_text: it went out or it raised; after the
\* last target the stale websockets are removed and the call returns
EmitSend(e) ==
    LET c == emits[e]
        w == c.targets[c.i]
        failed == send_fails(handles[w])
        stale == IF failed THEN c.stale \cup {w} ELSE c.stale
        last == c.i = Len(c.targets)
    IN  /\ c.pc = "sending"
        /\ (last /\ stale # {}) => lock_holders(emits) \ {e} = {}
        /\ handles' = IF failed THEN handles
                      ELSE [handles EXCEPT ![w].received = @ + 1]
        /\ emits' = [emits EXCEPT ![e] =
                        [c EXCEPT !.stale = stale,
                                  !.delivered = IF failed THEN @ ELSE @ \cup {w},
                                  !.i = c.i + 1,
                                  !.pc = IF last THEN "done" ELSE "sending"]]
        /\ connections' = IF last THEN emit_remove_stale(connections, c.user, stale)
                          ELSE connections
        /\ hubEvent' = HubEvent("send", e, c.user, IF last THEN "returned" ELSE "sending")
        /\ UNCHANGED NotHub

HubNext ==
    \/ \E w \in Handles : HubReject(w)
    \/ \E w \in Handles : HubRegister(w)
    \/ \E w \in Handles : HubBreak(w)
    \/ \E w \in Handles : HubDisconnect(w)
    \/ \E e \in Emitters, u \in Users, order \in UNION {Orders(S) : S \in SUBSET Handles} :
          EmitToUser(e, u, order)
    \/ \E e \in Emitters : EmitSend(e)

SpecHub == Init /\ [][HubNext]_vars

----------------------------------------------------------------------------
(* The Approval Workflow: the membership documents, emit_task_detected and *)
(* get_pending_approvals                                                    *)

\* what the workflow's steps leave alone; no notification websocket is
\* registered here, so that every emit_to_user finds no target and returns
NotApp == <<bufVars, sttVars, gwVars, hubVars>>

\* create_organization: the creator becomes ORG_ADMIN of the new organization
CreateOrganization(uid) ==
    /\ org_members = <<>>
    /\ org_members' = DictSet(org_members, uid, "ORG_ADMIN")
    /\ appEvent' = AppEvent("create_organization", uid, NoResult, <<>>)
    /\ UNCHANGED <<team_members, pending, emitCall, resVars, NotApp>>

\* join_organization with the join code of the organization, as MEMBER
JoinOrganization(uid) ==
    /\ org_members # <<>>
    /\ uid \notin DOMAIN org_members
    /\ org_members' = DictSet(org_members, uid, "MEMBER")
    /\ appEvent' = AppEvent("join_organization", uid, NoResult, <<>>)
    /\ UNCHANGED <<team_members, pending, emitCall, resVars, NotApp>>

\* add_member by an ORG_ADMIN: the membership document is written
AddMember(uid, team_id, target_uid, role) ==
    /\ is_org_admin(org_members, uid)
    /\ target_uid \in DOMAIN org_members
    /\ team_members' = DictSet(team_members, <<team_id, target_uid>>, role)
    /\ appEvent' = AppEvent("add_member", target_uid, NoResult, <<>>)
    /\ UNCHANGED <<org_members, pending, emitCall, resVars, NotApp>>

\* update_member_role by an ORG_ADMIN, of a member of the team
UpdateMemberRole(uid, team_id, target_uid, role) ==
    /\ is_org_admin(org_members, uid)
    /\ <<team_id, target_uid>> \in DOMAIN team_members
    /\ team_members' = DictSet(team_members, <<team_id, target_uid>>, role)
    /\ appEvent' = AppEvent("update_member_role", target_uid, NoResult, <<>>)
    /\ UNCHANGED <<org_members, pending, emitCall, resVars, NotApp>>

\* remove_member by an ORG_ADMIN
RemoveMember(uid, team_id, target_uid) ==
    /\ is_org_admin(org_members, uid)
    /\ <<team_id, target_uid>> \in DOMAIN team_members
    /\ team_members' = DictPop(team_members, <<team_id, target_uid>>)
    /\ appEvent' = AppEvent("remove_member", target_uid, NoResult, <<>>)
    /\ UNCHANGED <<org_members, pending, emitCall, resVars, NotApp>>

\* emit_task_detected is called: it returns at once without candidates,
\* otherwise it stores the pending approval and looks the managers up
EmitTaskDetected(org_id, meeting_id, team_id, task_candidates, now_ms) ==
    LET r == emit_task_detected(pending, org_id, meeting_id, team_id, task_candidates, now_ms)
    IN  /\ emitCall.pc = "idle"
        /\ Len(r.pending) <= MaxPending
        /\ pending' = r.pending
        /\ emitCall' = IF r.returned THEN EmitTaskDetectedCall
                       ELSE [pc |-> "lookup", org_id |-> org_id, meeting_id |-> meeting_id,
                             team_id |-> team_id, pending_id |-> r.pending_id]
        /\ appEvent' = AppEvent(IF r.returned THEN "emit_task_detected" ELSE "store_pending_approval",
                                "u1", r.result, <<>>)
        /\ UNCHANGED <<org_members, team_members, resVars, NotApp>>

\* the lookup returns: the managers are notified and the call returns
EmitNotify ==
    /\ emitCall.pc = "lookup"
    /\ \A u \in get_team_manager_uids(members_of(org_members, emitCall.org_id),
                                      team_members, emitCall.team_id) :
          emit_snapshot(connections, u).targets = {}
    /\ emitCall' = EmitTaskDetectedCall
    /\ appEvent' = AppEvent("emit_task_detected", "u1",
                            emit_task_detected_notify(org_members, team_members, emitCall), <<>>)
    /\ UNCHANGED <<org_members, team_members, pending, resVars, NotApp>>

\* get_pending_approvals of a user, for an organization
GetPendingApprovals(user_id, org_id) ==
    /\ appEvent' = AppEvent("get_pending_approvals", user_id, NoResult,
                            get_pending_approvals(pending, org_members, team_members,
                                                  user_id, org_id))
    /\ UNCHANGED <<org_members, team_members, pending, emitCall, resVars, NotApp>>

\* a worker thread k runs an operation whose outcome up to pending_ref.update
\* is r: the tasks are created; a call that raised or has nothing to write
\* returns, any other one is about to write. Thread b is the second of two
\* calls under way at once.
ResolveBegin(k, op, pending_id, r) ==
    /\ k = "b" => calls["a"].pc # "idle"
    /\ Len(r.tasks) <= MaxTasks
    /\ tasks' = r.tasks
    /\ IF r.writes
       THEN /\ calls' = [calls EXCEPT ![k] =
                            [pc |-> "update", op |-> op, pending_id |-> pending_id,
                             task_candidates |-> r.task_candidates, result |-> r.result]]
            /\ UNCHANGED resEvent
       ELSE /\ resEvent' = ResolveEvent(op, r.result)
            /\ UNCHANGED calls
    /\ UNCHANGED <<org_members, team_members, pending, emitCall, appEvent, NotApp>>

ApproveTask(k, pending_id, task_index, user_id) ==
    /\ calls[k].pc = "idle"
    /\ ResolveBegin(k, "approve_task", pending_id,
                    approve_task(pending, tasks, org_members, team_members,
                                 pending_id, task_index, user_id))

RejectTask(k, pending_id, task_index, user_id) ==
    /\ calls[k].pc = "idle"
    /\ ResolveBegin(k, "reject_task", pending_id,
                    reject_task(pending, tasks, org_members, team_members,
                                pending_id, task_index, user_id))

ApproveAllTasks(k, pending_id, user_id) ==
    /\ calls[k].pc = "idle"
    /\ ResolveBegin(k, "approve_all_tasks", pending_id,
                    approve_all_tasks(pending, tasks, org_members, team_members,
                                      pending_id, user_id))

RejectAllTasks(k, pending_id, task_indexes, user_id) ==
    /\ calls[k].pc = "idle"
    /\ ResolveBegin(k, "reject_all_tasks", pending_id,
                    reject_all_tasks(pending, tasks, org_members, team_members,
                                     pending_id, task_indexes, user_id))

\* the thread writes the document and returns
ResolveUpdate(k) ==
    /\ calls[k].pc = "update"
    /\ pending' = update_pending_approval(pending, calls[k].pending_id, calls[k].task_candidates)
    /\ calls' = [calls EXCEPT ![k] = ResolveCall]
    /\ resEvent' = ResolveEvent(calls[k].op, after_update(calls[k].op, calls[k].result))
    /\ UNCHANGED <<org_members, team_members, emitCall, appEvent, tasks, NotApp>>

ResolveNext ==
    \/ \E k \in Threads, pending_id \in PendingIds, task_index \in TaskIndexes, user_id \in Users :
          ApproveTask(k, pending_id, task_index, user_id)
    \/ \E k \in Threads, pending_id \in PendingIds, task_index \in TaskIndexes, user_id \in Users :
          RejectTask(k, pending_id, task_index, user_id)
    \/ \E k \in Threads, pending_id \in PendingIds, user_id \in Users :
          ApproveAllTasks(k, pending_id, user_id)
    \/ \E k \in Threads, pending_id \in PendingIds, task_indexes \in IndexLists, user_id \in Users :
          RejectAllTasks(k, pending_id, task_indexes, user_id)
    \/ \E k \in Threads : ResolveUpdate(k)

\* SpecApproval: the membership documents, emit_task_detected,
\* get_pending_approvals, and one thread rejecting every unresolved candidate
\* of a document
AppNext ==
    \/ \E uid \in Users : CreateOrganization(uid)
    \/ \E uid \in Users : JoinOrganization(uid)
    \/ \E uid \in Users, team_id \in TeamIds \ {NoTeam}, target_uid \in Users,
          role \in VALID_TEAM_ROLES : AddMember(uid, team_id, target_uid, role)
    \/ \E uid \in Users, team_id \in TeamIds \ {NoTeam}, target_uid \in Users,
          role \in VALID_TEAM_ROLES : UpdateMemberRole(uid, team_id, target_uid, role)
    \/ \E uid \in Users, team_id \in TeamIds \ {NoTeam}, target_uid \in Users :
          RemoveMember(uid, team_id, target_uid)
    \/ \E ot \in OrgTeams, task_candidates \in ListedCandidates, now_ms \in NormalizeClock :
          EmitTaskDetected(ot[1], "m1", ot[2], task_candidates, now_ms)
    \/ EmitNotify
    \/ \E user_id \in Users, org_id \in OrgIds : GetPendingApprovals(user_id, org_id)
    \/ \E pending_id \in PendingIds, user_id \in Users :
          RejectAllTasks("a", pending_id, [given |-> FALSE, indexes |-> {}], user_id)
    \/ ResolveUpdate("a")

SpecApproval == Init /\ [][AppNext]_vars

\* SpecResolve: the approve/reject calls on the first pending approval of an
\* organization that u1 created and u2 joined, after u1 made u2 MANAGER of t1:
\* u2 is a manager for the approvals of t1 and no manager for those of no team
ResolveInit ==
    /\ buffers = <<>>
    /\ bufEvent = BufferEvent("none", "m1", <<>>, <<>>)
    /\ sess = <<>>
    /\ sessions = <<>>
    /\ callbacks = <<>>
    /\ nextChunk = 1
    /\ sttEvent = SttEvent("none", "m1", 0, 0, "ok")
    /\ gw = [c \in Connections |-> GatewayHandler]
    /\ connections = <<>>
    /\ handles = [w \in Handles |-> NotificationSocket]
    /\ emits = [e \in Emitters |-> EmitCall]
    /\ hubEvent = HubEvent("none", 0, "u1", "ok")
    /\ org_members = [u \in {"u1", "u2"} |-> IF u = "u1" THEN "ORG_ADMIN" ELSE "MEMBER"]
    /\ team_members = [k \in {<<"t1", "u2">>} |-> "MANAGER"]
    /\ pending = <<>>
    /\ emitCall = EmitTaskDetectedCall
    /\ appEvent = AppEvent("add_member", "u2", NoResult, <<>>)
    /\ tasks = <<>>
    /\ calls = [k \in Threads |-> ResolveCall]
    /\ resEvent = ResolveEvent("none", NoResolve)

FirstEmit(team_id, task_candidates, now_ms) ==
    /\ pending = <<>>
    /\ EmitTaskDetected(OurOrg, "m1", team_id, task_candidates, now_ms)

ResolveSpecNext ==
    \/ \E team_id \in TeamIds, task_candidates \in ResolvedCandidates, now_ms \in NormalizeClock :
          FirstEmit(team_id, task_candidates, now_ms)
    \/ EmitNotify
    \/ ResolveNext

SpecResolve == ResolveInit /\ [][ResolveSpecNext]_vars

----------------------------------------------------------------------------
(* Claims about the Transcript Buffer, checked under SpecBuffer *)

Last(seq) == seq[Len(seq)]

IsBlank(text) == \A i \in 1..Len(text) : text[i] \in Whitespace

IsPrefix(s, t) == Len(s) <= Len(t) /\ SubSeq(t, 1, Len(s)) = s

\* the buffer of meeting m in registry d, an empty one when m has none
BufferOf(d, m) == IF m \in DOMAIN d THEN d[m] ELSE TranscriptBuffer

AddOps == {"add_final_transcript", "add_partial_transcript"}

\* C1: after any sequence of init/addFinal/addPartial/recent/full calls with
\* arbitrary timestamps, the rolling queue holds no entry whose timestamp is more
\* than BUFFER_WINDOW_MS older than the latest inserted timestamp (the timestamp
\* of the last entry of the full history).
C1_RollingWithinWindow ==
    \A m \in DOMAIN buffers :
        buffers[m].full_entries # <<>> =>
            \A i \in 1..Len(buffers[m].entries) :
                buffers[m].entries[i].timestamp
                    >= Last(buffers[m].full_entries).timestamp - BUFFER_WINDOW_MS

Hello == TranscriptEntry(<<"h", ".">>, 0)
World == TranscriptEntry(<<"w", " ", "w", "!">>, 40000)

\* C2: after addFinal(hello, t=0) and addFinal(world, t=40000) a recent() read
\* returns exactly [world@40000] and a full() read returns [hello@0, world@40000],
\* whatever the wall-clock time of the read.
C2_RecentRelativeToLatestInsert ==
    \A m \in DOMAIN buffers :
        (bufEvent.meeting = m /\ buffers[m].full_entries = <<Hello, World>>) =>
            /\ bufEvent.op = "get_recent_entries" => bufEvent.ret = <<World>>
            /\ bufEvent.op = "get_full_entries" => bufEvent.ret = <<Hello, World>>

\* C3: an addFinal that directly follows an addFinal on the same meeting whose
\* text normalizes to the same non-empty string returns nothing and stores
\* nothing: the rolling queue and the full history are left as they were, each
\* ending with the one entry for that text.
C3_FinalDedup ==
    [][ ( /\ bufEvent.op = "add_final_transcript"
          /\ bufEvent'.op = "add_final_transcript"
          /\ bufEvent'.meeting = bufEvent.meeting
          /\ ~IsBlank(bufEvent.text)
          /\ normalize_text(bufEvent'.text) = normalize_text(bufEvent.text) )
        => ( /\ bufEvent'.ret = <<>>
             /\ buffers' = buffers
             /\ Last(buffers[bufEvent.meeting].entries).text = normalize_text(bufEvent.text)
             /\ Last(buffers[bufEvent.meeting].full_entries).text = normalize_text(bufEvent.text) )
      ]_vars

C3_Witness ==
    /\ bufEvent.op = "add_final_transcript"
    /\ bufEvent.text = <<"\n", "h", ".", " ">>
    /\ bufEvent.ret = <<>>
    /\ "m1" \in DOMAIN buffers
    /\ Len(buffers["m1"].entries) = 1
    /\ Len(buffers["m1"].full_entries) = 1
    /\ buffers["m1"].full_entries[1].text = <<"h", ".">>

\* non-empty, trimmed, single spaces only, terminated by '.', '!' or '?'
WellFormedText(t) ==
    /\ t # <<>>
    /\ t[1] \notin Whitespace
    /\ Last(t) \in {".", "!", "?"}
    /\ \A i \in 1..Len(t) :
           t[i] \in Whitespace => (t[i] = " " /\ i < Len(t) /\ t[i + 1] \notin Whitespace)

AllEntriesWellFormed ==
    \A m \in DOMAIN buffers :
        /\ \A i \in 1..Len(buffers[m].entries) : WellFormedText(buffers[m].entries[i].text)
        /\ \A i \in 1..Len(buffers[m].full_entries) : WellFormedText(buffers[m].full_entries[i].text)

\* C4: every entry held in a rolling queue or a full history has well-formed text
\* (non-empty, whitespace-collapsed, terminated by . ! or ?), and an addFinal or
\* addPartial whose text is empty after normalization (only whitespace) returns
\* nothing and adds no entry to either queue.
C4_EntriesNormalized ==
    /\ []AllEntriesWellFormed
    /\ [][ (bufEvent'.op \in AddOps /\ IsBlank(bufEvent'.text))
           => ( /\ bufEvent'.ret = <<>>
                /\ BufferOf(buffers', bufEvent'.meeting) = BufferOf(buffers, bufEvent'.meeting) )
         ]_vars

C4_Witness ==
    /\ bufEvent.op \in AddOps
    /\ IsBlank(bufEvent.text)
    /\ bufEvent.ret = <<>>
    /\ "m1" \in DOMAIN buffers
    /\ Len(buffers["m1"].full_entries) = 2
    /\ buffers["m1"].full_entries[1].text = <<"w", " ", "w", "!">>
    /\ buffers["m1"].full_entries[2].text = <<"h", ".">>

\* C5: between init and clear of a meeting the full history is append-only: every
\* call other than clear keeps the buffer registered and leaves the old full
\* history as a prefix of the new one, also when the call evicts entries from the
\* rolling queue.
C5_FullAppendOnly ==
    [][ \A m \in DOMAIN buffers :
            (bufEvent'.op # "clear_meeting" \/ bufEvent'.meeting # m)
            => ( /\ m \in DOMAIN buffers'
                 /\ IsPrefix(buffers[m].full_entries, buffers'[m].full_entries) )
      ]_vars

\* a read has just evicted both entries from the rolling queue; the history keeps them
C5_Witness ==
    /\ bufEvent.op = "get_recent_entries"
    /\ "m1" \in DOMAIN buffers
    /\ buffers["m1"].entries = <<>>
    /\ Len(buffers["m1"].full_entries) = 2

----------------------------------------------------------------------------
(* Claims about one STT session, checked under SpecSession *)

\* a session that takes audio: neither stopping nor closed
IsOpen(ss) == ~ss.stopping /\ ~ss.closed

\* C6: a session's audio queue never holds more than 200 items; when add_audio
\* brings a chunk to an open session whose queue holds 200 chunks, the oldest is
\* evicted, the new chunk is queued last and the size stays 200.
C6_QueueBoundedDropOldest ==
    /\ [](\A s \in DOMAIN sess : Len(sess[s].audio_queue) <= AUDIO_QUEUE_MAXSIZE)
    /\ [][ \A s \in DOMAIN sess :
              ( /\ sttEvent'.op = "add_audio"
                /\ sttEvent'.session = s
                /\ sttEvent'.chunk # EmptyChunk
                /\ IsOpen(sess[s])
                /\ Len(sess[s].audio_queue) = AUDIO_QUEUE_MAXSIZE )
              => ( /\ s \in DOMAIN sess'
                   /\ sess'[s].audio_queue = Append(Tail(sess[s].audio_queue), sttEvent'.chunk)
                   /\ Len(sess'[s].audio_queue) = AUDIO_QUEUE_MAXSIZE )
         ]_vars

\* chunk 201 has just arrived at the full queue of chunks 1..200, none consumed:
\* chunk 1 is gone, 201 is last
C6_Witness ==
    /\ sttEvent.op = "add_audio"
    /\ sttEvent.chunk = AUDIO_QUEUE_MAXSIZE + 1
    /\ 1 \in DOMAIN sess
    /\ sess[1].n_sent = 0
    /\ sess[1].inflight = <<>>
    /\ Len(sess[1].audio_queue) = AUDIO_QUEUE_MAXSIZE
    /\ Head(sess[1].audio_queue) = 2
    /\ Last(sess[1].audio_queue) = AUDIO_QUEUE_MAXSIZE + 1

\* sender and receiver loops are not running and the session is marked closed
Terminated(ss) == ss.closed /\ ss.worker = "done" /\ ss.sender # "running" /\ ss.receiver # "running"

\* the sentinels of a session: queued, in flight, or sent as a stop frame
Sentinels(ss) ==
    Cardinality({i \in 1..Len(ss.audio_queue) : ss.audio_queue[i] = NoneItem})
    + (IF ss.inflight = <<NoneItem>> THEN 1 ELSE 0)
    + ss.stop_frames

\* C10: closing is idempotent and synchronous.  A session never has a second
\* sentinel or a second stop frame, and a close() or close_session that meets a
\* session already stopping leaves its queue and its stop frames as they were.  A
\* close() or close_session that meets a session not yet stopping returns, at once
\* or when resumed from its wait, only when the session is closed and neither loop
\* is running.
C10_CloseIdempotentSynchronous ==
    /\ [](\A s \in DOMAIN sess : Sentinels(sess[s]) <= 1)
    /\ [][ \A s \in DOMAIN sess :
              /\ ( /\ sttEvent'.op \in {"close", "close_session"}
                   /\ sttEvent'.session = s
                   /\ sess[s].stopping
                   /\ s \in DOMAIN sess' )
                 => ( /\ sess'[s].audio_queue = sess[s].audio_queue
                      /\ sess'[s].inflight = sess[s].inflight
                      /\ sess'[s].stop_frames = sess[s].stop_frames )
              /\ ( /\ sttEvent'.op \in {"close", "close_session"}
                   /\ sttEvent'.session = s
                   /\ ~sess[s].stopping
                   /\ sttEvent'.result = "returned" )
                 => Terminated(sess[s])
              /\ ( /\ sttEvent'.op = "close_return"
                   /\ sttEvent'.session = s )
                 => Terminated(sess[s])
         ]_vars

\* a second close() has just returned at once while the first one is still waiting
\* for the worker; the one stop frame has gone out
C10_Witness ==
    /\ sttEvent.op = "close"
    /\ sttEvent.result = "returned"
    /\ 1 \in DOMAIN sess
    /\ sess[1].stopping
    /\ sess[1].close_waiting
    /\ sess[1].worker = "streaming"
    /\ sess[1].stop_frames = 1

\* the audio chunks of a sequence of queue items, the sentinel left out
Chunks(items) == SelectSeq(items, LAMBDA x : x # NoneItem)

\* the chunks a session still has to send: the one in flight, then the queue
Pending(ss) == Chunks(ss.inflight \o ss.audio_queue)

\* C12: the chunks of a session go to the provider in the order add_audio took
\* them (their labels count the accepted chunks).  What is still to be sent is in
\* accepted order and later than everything sent, the queue holds consecutive
\* chunks, and each chunk sent is the one the sender took from the head of the
\* queue and later than the one sent before it.  A chunk is passed over only when
\* the queue has overflowed, which takes at least 200 accepted chunks and one
\* more item.
C12_ChunksSentInOrder ==
    /\ [](\A s \in DOMAIN sess :
             LET p == Pending(sess[s])
                 q == Chunks(sess[s].audio_queue)
             IN  /\ \A i \in 1..Len(p) : p[i] > sess[s].last_sent
                 /\ \A i \in 1..(Len(p) - 1) : p[i + 1] > p[i]
                 /\ \A i \in 1..(Len(q) - 1) : q[i + 1] = q[i] + 1)
    /\ [][ \A s \in DOMAIN sess \cap DOMAIN sess' :
              (sess'[s].last_sent # sess[s].last_sent)
              => ( /\ sess[s].inflight = <<sess'[s].last_sent>>
                   /\ sess'[s].last_sent > sess[s].last_sent
                   /\ sess'[s].n_sent = sess[s].n_sent + 1
                   /\ (sess'[s].last_sent > sess[s].last_sent + 1
                       => nextChunk > AUDIO_QUEUE_MAXSIZE) )
         ]_vars

\* chunk 3 has just been sent after chunk 2, chunk 1 having been evicted from the
\* full queue before the sender took anything
C12_Witness ==
    /\ 1 \in DOMAIN sess
    /\ sess[1].last_sent = 3
    /\ sess[1].n_sent = 2
    /\ sess[1].inflight = <<>>
    /\ Len(sess[1].audio_queue) = AUDIO_QUEUE_MAXSIZE - 2

----------------------------------------------------------------------------
(* Claims about the STT service, checked under SpecStt *)

\* the meeting has a registered session that is not closed
HasActiveSession(m) == m \in DOMAIN sessions /\ ~sess[sessions[m]].closed

\* C7: start_session fails with AlreadyActive exactly when a session that is not
\* closed is registered for the meeting.  When it fails the registry is unchanged
\* and the registered session is as it was; when it succeeds the registry holds
\* for the meeting the session just constructed, and no other.
C7_StartSessionAlreadyActive ==
    [][ \A m \in Meetings :
           (sttEvent'.op = "start_session" /\ sttEvent'.meeting = m)
           => /\ (sttEvent'.result = "AlreadyActive") <=> HasActiveSession(m)
              /\ HasActiveSession(m)
                 => ( /\ sessions' = sessions
                      /\ sessions[m] \in DOMAIN sess'
                      /\ sess'[sessions[m]] = sess[sessions[m]] )
              /\ ~HasActiveSession(m)
                 => ( /\ sttEvent'.result = "ok"
                      /\ sttEvent'.session \notin DOMAIN sess
                      /\ m \in DOMAIN sessions'
                      /\ sessions'[m] = sttEvent'.session
                      /\ sess'[sessions'[m]] = DeepgramStreamingSession(m, callbacks'[m])
                      /\ (m \in DOMAIN sessions => sessions[m] \notin DOMAIN sess') )
      ]_vars

\* start_session has just failed against a streaming session, which stays registered
C7_Witness ==
    /\ sttEvent.op = "start_session"
    /\ sttEvent.result = "AlreadyActive"
    /\ "m1" \in DOMAIN sessions
    /\ sess[sessions["m1"]].worker = "streaming"
    /\ ~sess[sessions["m1"]].closed

\* C8: send_audio_chunk for a meeting whose registered session is closed and whose
\* callback is registered constructs a new session with that callback, registers
\* it and queues the chunk on it; with no callback registered it fails with
\* NoCallbackRegistered and neither the heap nor the registry changes.
C8_SendAudioRehydrates ==
    [][ \A m \in Meetings :
           (sttEvent'.op = "send_audio_chunk" /\ sttEvent'.meeting = m)
           => /\ ( /\ m \in DOMAIN sessions
                   /\ sess[sessions[m]].closed
                   /\ m \in DOMAIN callbacks )
                 => ( /\ sttEvent'.result = "rehydrated"
                      /\ sttEvent'.session \notin DOMAIN sess
                      /\ sessions'[m] = sttEvent'.session
                      /\ sess'[sessions'[m]] =
                            [DeepgramStreamingSession(m, callbacks[m]) EXCEPT
                                !.audio_queue = IF sttEvent'.chunk = EmptyChunk
                                                THEN <<>> ELSE <<sttEvent'.chunk>>] )
              /\ (m \notin DOMAIN callbacks)
                 => ( /\ sttEvent'.result = "NoCallbackRegistered"
                      /\ sess' = sess
                      /\ sessions' = sessions )
      ]_vars

\* a chunk has just arrived for a meeting whose session the provider had ended: it
\* is the one item queued on the new session, which has the registered callback
C8_Witness ==
    /\ sttEvent.op = "send_audio_chunk"
    /\ sttEvent.result = "rehydrated"
    /\ sttEvent.chunk # EmptyChunk
    /\ "m1" \in DOMAIN sessions
    /\ sessions["m1"] = sttEvent.session
    /\ sess[sessions["m1"]].audio_queue = <<sttEvent.chunk>>
    /\ sess[sessions["m1"]].callback = callbacks["m1"]
    /\ sess[sessions["m1"]].worker = "connecting"

----------------------------------------------------------------------------
(* Claims about the Ingestion Gateway, checked under SpecGateway *)

\* the session start_session returned to the handler of c has failed to connect
StartedSessionFailed(c) ==
    /\ gw[c].session \in DOMAIN sess
    /\ sess[gw[c].session].handshake = "failed"

\* C9: when the provider connection of the session a handler's start_session
\* created fails in the handshake, the call has failed, so the handler never took
\* the session as started, and the handler has closed its connection with the
\* reason code of an unavailable provider.
C9_HandshakeFailureEndsConnection ==
    \A c \in Connections :
        StartedSessionFailed(c)
        => ( /\ ~gw[c].stt_started
             /\ gw[c].pc = "closed"
             /\ gw[c].close_code = WS_CLOSE_TRY_LATER )

\* C11: when a handler that had started an STT session has returned, the session
\* start_session gave it is terminated: closed, its worker done, neither loop
\* running, so that it takes no more audio from its queue and calls no callback.
C11_SessionTerminatedWhenHandlerReturns ==
    \A c \in Connections :
        ( /\ gw[c].pc = "closed"
          /\ gw[c].stt_started
          /\ gw[c].session \in DOMAIN sess )
        => Terminated(sess[gw[c].session])

\* the handshake accepts exactly the attempts that present the meeting id and
\* a token that verifies, and closes the others with the policy code; a
\* connection that was not accepted is waiting for the handshake or closed with
\* that code, and has started no session
AcceptOnlyAuthenticated ==
    /\ \A c \in Connections, meeting_id \in MeetingParams, token \in Tokens :
           gw[c].pc = "authenticating"
           => ( /\ handshake(meeting_id, token).accept
                       <=> (meeting_id = MeetingOf(c) /\ token = "good")
                /\ ~handshake(meeting_id, token).accept
                       => handshake(meeting_id, token).code = WS_CLOSE_POLICY )
    /\ \A c \in Connections :
           gw[c].client_state = "connecting"
           => ( /\ gw[c].pc \in {"authenticating", "closed"}
                /\ gw[c].pc = "closed" => gw[c].close_code = WS_CLOSE_POLICY
                /\ ~gw[c].stt_started
                /\ gw[c].session = 0 )

\* the rejecting step does not accept and leaves the buffers and the STT
\* service alone
RejectCreatesNothing ==
    \A c \in Connections :
        (gw[c].pc = "authenticating" /\ gw'[c].pc = "closed")
        => ( /\ gw'[c].client_state = "connecting"
             /\ UNCHANGED <<buffers, sess, sessions, callbacks>> )

\* C15: an ingestion connection is accepted only when its meeting id is
\* presented and its token verifies; every other attempt is closed with the
\* policy code without being accepted, and no Transcript Buffer and no STT
\* session is created for it.
C15_AcceptOnlyAuthenticated ==
    []AcceptOnlyAuthenticated /\ [][RejectCreatesNothing]_vars

\* a rejected attempt next to an accepted connection that streams
C15_Witness ==
    /\ gw["c1"].pc = "closed"
    /\ gw["c1"].client_state = "connecting"
    /\ gw["c1"].close_code = WS_CLOSE_POLICY
    /\ gw["c2"].pc = "streaming"
    /\ "m1" \in DOMAIN buffers
    /\ "m1" \in DOMAIN sessions

\* frames that are malformed: text that is no JSON, a message without
\* timestamp, an audio_chunk that is no base64
MalformedFrames == {"malformed", "no_timestamp", "bad_base64", "non_ascii_base64"}

\* C16: for a handler in Streaming, a malformed frame is skipped: nothing is
\* forwarded to the STT service, whose sessions stay as they are, and the
\* handler continues with the next frame; and when forwarding the audio of a
\* valid frame fails, the handler continues as well.
C16_MalformedFrameSkipped ==
    \A c \in Connections, kind \in MalformedFrames \cup {"audio"} :
        LET r == receive_frame(sess, sessions, callbacks, MeetingOf(c), kind, nextChunk)
        IN  gw[c].pc = "streaming"
            => ( /\ r.next = "continue"
                 /\ kind \in MalformedFrames
                       => (~r.forwarded /\ r.sess = sess /\ r.sessions = sessions) )

\* for a handler that awaits the analysis, whatever the analysis does: the
\* handler had started its session, close_session leaves the meeting without
\* registered session and callback, the session that was registered has been
\* told to stop, and an analysis that raised yields the tasks of no analysis
CleanupWhateverAnalysis ==
    \A c \in Connections, outcome \in AnalysisOutcomes :
        LET m == MeetingOf(c)
            r == finally_block(gw[c], sess, sessions, callbacks, m, outcome)
        IN  gw[c].pc = "analyzing"
            => ( /\ gw[c].stt_started
                 /\ m \notin DOMAIN r.sessions
                 /\ m \notin DOMAIN r.callbacks
                 /\ m \in DOMAIN sessions => r.sess[sessions[m]].stopping
                 /\ outcome = "failure" => r.analysis_tasks = <<>> )

\* a handler leaves Streaming only into the finally block; its step out of the
\* analysis unregisters the meeting's session and callback; the step in which
\* it returns leaves the meeting without buffer, and a session whose close()
\* it awaited is terminated
DrainingStep ==
    \A c \in Connections :
        LET m == MeetingOf(c)
        IN  /\ (gw[c].pc = "streaming" /\ gw'[c].pc # "streaming")
                  => gw'[c].pc = "analyzing"
            /\ (gw[c].pc = "analyzing" /\ gw'[c].pc # "analyzing")
                  => ( /\ gw'[c].pc \in {"closing", "closed"}
                       /\ m \notin DOMAIN sessions'
                       /\ m \notin DOMAIN callbacks' )
            /\ (gw[c].pc = "closing" /\ gw'[c].pc # "closing")
                  => ( /\ gw'[c].pc = "closed"
                       /\ Terminated(sess[gw[c].awaiting]) )
            /\ (gw[c].pc \in {"analyzing", "closing"} /\ gw'[c].pc = "closed")
                  => m \notin DOMAIN buffers'

C18_CandidatesHandedToApproval ==
    \A c \in Connections :
        gw[c].pc = "analyzing"
        => finally_block(gw[c], sess, sessions, callbacks, MeetingOf(c), "tasks").detected
              = AnalysisTasks

\* C19: the transcript callback writes to the Transcript Buffer for final
\* results only: when handle_transcript has run on an interim result, the
\* buffers are what they were.
C19_OnlyFinalResultsBuffered ==
    [][ \A s \in DOMAIN sess :
          ( /\ sess[s].receiver = "callback"
            /\ ~sess[s].payload[1].is_final
            /\ s \in DOMAIN sess'
            /\ sess'[s].receiver = "running" )
          => buffers' = buffers ]_vars

----------------------------------------------------------------------------
(* Claims about the Notification Hub, checked under SpecHub *)

\* C13: an emit_to_user call never fails on a send.  Each send either delivers
\* the message to its target or marks the target stale; the registry is untouched
\* until the call returns, and then exactly the stale websockets have left the
\* user's bucket: every target whose send went out has the message, and is still
\* registered if it was, and the buckets of other users are as they were.
C13_EmitRemovesExactlyFailed ==
    [][ \A e \in Emitters :
           (hubEvent'.op = "send" /\ hubEvent'.emit = e)
           => LET c == emits[e]
                  d == emits'[e]
                  w == c.targets[c.i]
              IN  /\ hubEvent'.result \in {"sending", "returned"}
                  /\ IF send_fails(handles[w])
                     THEN w \in d.stale /\ handles' = handles
                     ELSE /\ w \in d.delivered
                          /\ w \notin d.stale
                          /\ handles'[w].received = handles[w].received + 1
                  /\ hubEvent'.result = "sending" => connections' = connections
                  /\ hubEvent'.result = "returned"
                     => ( /\ Bucket(connections', c.user) = Bucket(connections, c.user) \ d.stale
                          /\ \A u \in Users \ {c.user} :
                                Bucket(connections', u) = Bucket(connections, u)
                          /\ d.stale \cup d.delivered = {c.targets[i] : i \in 1..Len(c.targets)}
                          /\ d.stale \cap d.delivered = {}
                          /\ \A x \in d.delivered : handles'[x].received >= 1 )
      ]_vars

\* an emit to u1 has just returned: of its two targets the send to w1 failed and
\* w1 is no longer registered, w2 has the message and is still registered
C13_Witness ==
    /\ hubEvent.op = "send"
    /\ hubEvent.result = "returned"
    /\ \E e \in Emitters :
          /\ hubEvent.emit = e
          /\ emits[e].stale = {"w1"}
          /\ emits[e].delivered = {"w2"}
    /\ handles["w1"].state = "registered"
    /\ handles["w2"].received = 1
    /\ connections = [u \in {"u1"} |-> {"w2"}]

\* C14: emit_to_user for a user with no registered websocket returns at once,
\* sends nothing and leaves the registry as it was.
C14_EmitWithoutListeners ==
    [][ \A e \in Emitters :
           ( /\ hubEvent'.op = "emit_to_user"
             /\ hubEvent'.emit = e
             /\ Bucket(connections, hubEvent'.user) = {} )
           => ( /\ hubEvent'.result = "no_listeners"
                /\ emits'[e].pc = "done"
                /\ emits'[e].targets = <<>>
                /\ connections' = connections
                /\ handles' = handles )
      ]_vars

\* an emit to u1 has just returned for want of listeners, after both of u1's
\* websockets have come and gone, while u2 is connected
C14_Witness ==
    /\ hubEvent.op = "emit_to_user"
    /\ hubEvent.user = "u1"
    /\ hubEvent.result = "no_listeners"
    /\ handles["w1"].state = "gone"
    /\ handles["w2"].state = "gone"
    /\ connections = [u \in {"u2"} |-> {"w3"}]

----------------------------------------------------------------------------
(* Claims about the Approval Workflow, checked under SpecApproval *)

\* C20: every call of emit_task_detected stores a new pending approval.
C20_EmitAlwaysStores ==
    [][ ( /\ emitCall.pc = "idle"
          /\ appEvent' # appEvent
          /\ appEvent'.op \in {"emit_task_detected", "store_pending_approval"} )
        => Len(pending') = Len(pending) + 1 ]_vars

----------------------------------------------------------------------------
(* Claims about approving and rejecting, checked under SpecResolve *)

\* the indexes that are no candidate of the document
OutOfRange(doc) == {i \in TaskIndexes : i < 0 \/ i >= Len(doc.taskCandidates)}

\* approve_task and reject_task with an index out of range raise InvalidIndex,
\* whoever calls, and have created no task and have nothing to write
InvalidIndexRaised ==
    \A pending_id \in 1..Len(pending), user_id \in Users :
       \A task_index \in OutOfRange(pending[pending_id]) :
          LET a == approve_task(pending, tasks, org_members, team_members,
                                pending_id, task_index, user_id)
              r == reject_task(pending, tasks, org_members, team_members,
                               pending_id, task_index, user_id)
          IN  /\ a.error = "InvalidIndex" /\ a.tasks = tasks /\ ~a.writes
              /\ r.error = "InvalidIndex" /\ r.tasks = tasks /\ ~r.writes

\* the step of a call that raises InvalidIndex changes no document and leaves
\* no thread at work on one
InvalidIndexStep ==
    ( /\ resEvent' # resEvent
      /\ resEvent'.op \in {"approve_task", "reject_task"}
      /\ resEvent'.result.error = "InvalidIndex" )
    => ( pending' = pending /\ tasks' = tasks /\ calls' = calls )

\* C21: approving or rejecting with an index below 0 or not below the number of
\* candidates always fails with InvalidIndex, creates no task and leaves every
\* candidate and the status of the pending approval as they were.
C21_InvalidIndexChangesNothing == []InvalidIndexRaised /\ [][InvalidIndexStep]_vars

\* an approval with an index out of range has just failed, on a pending
\* approval one candidate of which had been approved and the other rejected
C21_Witness ==
    /\ resEvent = ResolveEvent("approve_task", ResolveResult("InvalidIndex", <<>>, 0, 0))
    /\ Len(pending) = 1
    /\ Len(pending[1].taskCandidates) = 2
    /\ pending[1].taskCandidates[1].status = "APPROVED"
    /\ pending[1].taskCandidates[2].status = "REJECTED"
    /\ Len(tasks) = 1

\* C22: for every pending approval that exists and every index, approving or
\* rejecting by a user who is neither ORG_ADMIN of its organization nor MANAGER
\* of its team fails with Forbidden, and creates no task and changes no
\* candidate.
C22_NonManagerForbidden ==
    \A pending_id \in 1..Len(pending), task_index \in TaskIndexes, user_id \in Users :
       ~is_manager(org_members, team_members, pending[pending_id].orgId,
                   pending[pending_id].teamId, user_id)
       => LET a == approve_task(pending, tasks, org_members, team_members,
                                pending_id, task_index, user_id)
              r == reject_task(pending, tasks, org_members, team_members,
                               pending_id, task_index, user_id)
          IN  /\ a.error = "Forbidden" /\ a.tasks = tasks /\ ~a.writes
              /\ r.error = "Forbidden" /\ r.tasks = tasks /\ ~r.writes

Resolved == {"APPROVED", "REJECTED"}

\* C23: when two calls approving or rejecting one candidate each, of different
\* indexes of one pending approval, run at once, the write of one does not undo
\* the resolution the other has stored: a candidate resolved in the document
\* before a thread writes is resolved after it.
C23_NoResolutionLost ==
    [][ \A k \in Threads :
           ( /\ calls[k].pc = "update"
             /\ calls'[k].pc = "idle"
             /\ calls[k].op \in {"approve_task", "reject_task"} )
           => \A i \in 1..Len(pending[calls[k].pending_id].taskCandidates) :
                 pending[calls[k].pending_id].taskCandidates[i].status \in Resolved
                 => pending'[calls[k].pending_id].taskCandidates[i].status \in Resolved
      ]_vars

C25_AlreadyResolvedRejected ==
    \A pending_id \in 1..Len(pending), user_id \in Users :
       \A i \in 1..Len(pending[pending_id].taskCandidates) :
          ( /\ pending[pending_id].taskCandidates[i].status \in Resolved
            /\ is_manager(org_members, team_members, pending[pending_id].orgId,
                          pending[pending_id].teamId, user_id) )
          => LET a == approve_task(pending, tasks, org_members, team_members,
                                   pending_id, i - 1, user_id)
                 r == reject_task(pending, tasks, org_members, team_members,
                                  pending_id, i - 1, user_id)
             IN  /\ a.error = "AlreadyResolved" /\ a.tasks = tasks /\ ~a.writes
                 /\ r.error = "AlreadyResolved" /\ r.tasks = tasks /\ ~r.writes

\* C26: the status of a candidate only moves from PENDING to APPROVED or from
\* PENDING to REJECTED; once it is APPROVED or REJECTED no step of an approve,
\* reject, approve-all or reject-all call changes it.
C26_ResolvedIsFinal ==
    [][ \A pending_id \in 1..Len(pending) :
           \A i \in 1..Len(pending[pending_id].taskCandidates) :
              pending[pending_id].taskCandidates[i].status \in Resolved
              => pending'[pending_id].taskCandidates[i].status
                     = pending[pending_id].taskCandidates[i].status
      ]_vars

\* C27: approve-all creates a task for each unresolved candidate and returns
\* the ids of the tasks it created with the number of candidates left
\* unresolved; reject-all returns the number it rejected with the number left:
\* the call that has written the document returns these without an error.
C27_BatchReturnsWhatItDid ==
    [][ \A k \in Threads :
           ( /\ calls[k].pc = "update"
             /\ calls'[k].pc = "idle"
             /\ calls[k].op \in {"approve_all_tasks", "reject_all_tasks"} )
           => /\ resEvent'.op = calls[k].op
              /\ resEvent'.result.error = ""
              /\ resEvent'.result.approvedTaskIds = calls[k].result.approvedTaskIds
              /\ resEvent'.result.rejectedCount = calls[k].result.rejectedCount
              /\ resEvent'.result.remaining
                    = pending_candidate_count(pending'[calls[k].pending_id].taskCandidates)
      ]_vars

----------------------------------------------------------------------------
(* Claims about listing the pending approvals, checked under SpecApproval *)

Range(seq) == {seq[i] : i \in 1..Len(seq)}

\* the ids of the documents of the organization that are PENDING or PARTIAL
OpenApprovals(org_id) ==
    {pending[i].pendingId : i \in {i \in 1..Len(pending) :
        pending[i].orgId = org_id /\ pending[i].status \in {"PENDING", "PARTIAL"}}}

\* those of them that are of one of the teams, or of no team
OpenApprovalsOf(org_id, team_ids) ==
    {pending[i].pendingId : i \in {i \in 1..Len(pending) :
        /\ pending[i].pendingId \in OpenApprovals(org_id)
        /\ pending[i].teamId \in team_ids \cup {NoTeam}}}

\* C28: get_pending_approvals returns the pending approvals of the
\* organization whose status is PENDING or PARTIAL and which the caller may
\* see (all of them for an ORG_ADMIN; for a manager those of the teams they
\* manage and those of no team), each once, the newest first, and never one
\* whose status is COMPLETED.
C28_PendingApprovalsListed ==
    \A user_id \in Users, org_id \in OrgIds :
       LET returned == get_pending_approvals(pending, org_members, team_members,
                                             user_id, org_id)
           managed == get_user_managed_teams(team_members, user_id)
       IN  /\ Range(returned) \subseteq OpenApprovals(org_id)
           /\ Cardinality(Range(returned)) = Len(returned)
           /\ \A i \in 1..Len(pending) :
                 pending[i].status = "COMPLETED" => pending[i].pendingId \notin Range(returned)
           /\ is_org_admin(members_of(org_members, org_id), user_id)
              => Range(returned) = OpenApprovals(org_id)
           /\ ( ~is_org_admin(members_of(org_members, org_id), user_id) /\ managed # {} )
              => Range(returned) = OpenApprovalsOf(org_id, managed)
           /\ \A i, j \in 1..Len(returned) :
                 i < j => pending[returned[i]].createdAt > pending[returned[j]].createdAt

\* u2, MANAGER of t1 and no ORG_ADMIN, has just been returned the second
\* approval, of t1, and not the first, which is COMPLETED
C28_Witness ==
    /\ appEvent.op = "get_pending_approvals"
    /\ appEvent.user = "u2"
    /\ appEvent.returned = <<2>>
    /\ ~is_org_admin(org_members, "u2")
    /\ get_user_managed_teams(team_members, "u2") = {"t1"}
    /\ Len(pending) = 2
    /\ pending[1].status = "COMPLETED"
    /\ pending[2].teamId = "t1"
    /\ pending[2].orgId = OurOrg

----------------------------------------------------------------------------
(* A claim about the Ingestion Gateway, checked under SpecReconnect *)

\* C29: when an accepted ingestion connection is closed, by whatever path, the
\* registry of the Transcript Buffer holds no buffer that this connection
\* created for its meeting: a handler that created the buffer and then failed
\* to start the session leaves no buffer, and a handler that leaves its
\* receive loop ends with the meeting cleared.
C29_ClosedLeavesNoBuffer ==
    [][ \A c \in Connections :
           ( gw[c].pc \notin {"closed", "authenticating"} /\ gw'[c].pc = "closed" )
           => IF gw[c].pc = "accepting"
              THEN MeetingOf(c) \notin DOMAIN buffers => MeetingOf(c) \notin DOMAIN buffers'
              ELSE MeetingOf(c) \notin DOMAIN buffers'
      ]_vars

----------------------------------------------------------------------------
(* A claim about the stored candidates, checked under SpecResolve *)

----------------------------------------------------------------------------
(* Claims about the end of a connection, checked under SpecGateway *)

\* the handler of c has left the receive loop
Drained(c) ==
    \/ gw[c].pc \in {"analyzing", "closing"}
    \/ gw[c].pc = "closed" /\ gw[c].stt_started

\* a handler has called analyze_meeting once if it has left the receive loop
\* and never otherwise; what a handler in the receive loop would hand to the
\* analysis at any reading of the clock is the rolling queue as pruned at that
\* reading if that is not empty, and the full history otherwise
AnalysisOncePerDrain ==
    /\ \A c \in Connections : gw[c].analyses = IF Drained(c) THEN 1 ELSE 0
    /\ \A c \in Connections : gw[c].pc # "analyzing" => gw[c].analysis_entries = <<>>
    /\ \A c \in Connections, now \in ClockValues :
           LET m == MeetingOf(c)
               r == analysis_input(buffers, m, now)
               rolling == IF m \in DOMAIN buffers THEN prune(buffers[m].entries, now) ELSE <<>>
               history == IF m \in DOMAIN buffers THEN buffers[m].full_entries ELSE <<>>
           IN  gw[c].pc = "streaming"
               => r.analysis_entries = IF rolling # <<>> THEN rolling ELSE history

\* the step in which a handler calls analyze_meeting is its step out of the
\* receive loop: the call gets the rolling queue as it is after the step's
\* pruning, or the full history when that queue is empty; the step leaves the
\* full history, the sessions and the callbacks as they were and removes no
\* buffer; no other step of the handler calls the analysis
AnalysisStep ==
    \A c \in Connections :
        LET m == MeetingOf(c)
            rolling == IF m \in DOMAIN buffers' THEN buffers'[m].entries ELSE <<>>
            history == IF m \in DOMAIN buffers' THEN buffers'[m].full_entries ELSE <<>>
        IN  /\ (gw[c].pc = "streaming" /\ gw'[c].pc # "streaming")
                  => ( /\ gw'[c].analyses = gw[c].analyses + 1
                       /\ gw'[c].analysis_entries = IF rolling # <<>> THEN rolling ELSE history
                       /\ DOMAIN buffers' = DOMAIN buffers
                       /\ m \in DOMAIN buffers
                             => ( /\ buffers'[m].full_entries = buffers[m].full_entries
                                  /\ \E now \in ClockValues :
                                        buffers'[m].entries = prune(buffers[m].entries, now) )
                       /\ UNCHANGED <<sess, sessions, callbacks>> )
            /\ (gw[c].pc # "streaming" /\ gw'[c].pc # "authenticating")
                  => gw'[c].analyses = gw[c].analyses

\* C31: a handler that leaves the receive loop calls the analysis exactly once,
\* with the rolling view if that is not empty and with the full view otherwise;
\* both views are read before the STT session is closed and before the buffer
\* is cleared.
C31_AnalysisOnceWithChosenView ==
    []AnalysisOncePerDrain /\ [][AnalysisStep]_vars

\* a handler awaits the analysis it called with the full history, the rolling
\* queue having been pruned empty, while the meeting's session is registered
C31_Witness ==
    /\ gw["c1"].pc = "analyzing"
    /\ gw["c1"].analyses = 1
    /\ gw["c1"].analysis_entries # <<>>
    /\ buffers["m1"].entries = <<>>
    /\ gw["c1"].analysis_entries = buffers["m1"].full_entries
    /\ "m1" \in DOMAIN sessions

----------------------------------------------------------------------------
(* Claims about the registry lock, checked under SpecHub *)

\* the websockets an emit_to_user call sends to
TargetsOf(c) == {c.targets[i] : i \in 1..Len(c.targets)}

\* while an emit_to_user call is sending, nobody holds the lock: a websocket
\* that connects can be registered and a registered one unregistered at once;
\* what the call has sent to so far, with or without success, are the first
\* targets of its snapshot
RegistryFreeWhileSending ==
    \A e \in Emitters :
        emits[e].pc = "sending"
        => ( /\ lock_holders(emits) = {}
             /\ \A w \in Handles : handles[w].state = "new" => ENABLED HubRegister(w)
             /\ \A w \in Handles : handles[w].state = "registered" => ENABLED HubDisconnect(w)
             /\ emits[e].stale \cup emits[e].delivered
                   = {emits[e].targets[i] : i \in 1..(emits[e].i - 1)} )

\* the snapshot is the user's bucket at the time of the call, each websocket
\* once, and does not change while the call sends; a websocket gets a message
\* only in the send of a call that has it in its snapshot
SendsToSnapshotOnly ==
    /\ \A e \in Emitters :
           /\ (emits[e].pc = "idle" /\ emits'[e].pc # "idle")
                 => ( /\ TargetsOf(emits'[e]) = Bucket(connections, emits'[e].user)
                      /\ Len(emits'[e].targets) = Cardinality(TargetsOf(emits'[e])) )
           /\ emits[e].pc = "sending" => emits'[e].targets = emits[e].targets
    /\ \A w \in Handles :
           handles'[w].received # handles[w].received
           => \E e \in Emitters :
                 /\ emits[e].pc = "sending"
                 /\ emits[e].targets[emits[e].i] = w
                 /\ emits'[e].i = emits[e].i + 1
                 /\ handles'[w].received = handles[w].received + 1

\* C32: emit_to_user sends to a snapshot of the user's websockets taken under
\* the lock and does not hold the lock while it sends: a register or unregister
\* made during a delivery completes without waiting for it, and the call
\* attempts delivery to exactly the websockets of its snapshot, so that one
\* registered after the snapshot does not get the event.
C32_SnapshotSentWithoutLock ==
    []RegistryFreeWhileSending /\ [][SendsToSnapshotOnly]_vars

\* an emit to u1 has returned after sending to its snapshot, w1 alone; w2 was
\* registered for u1 while the call was sending and has received nothing
C32_Witness ==
    /\ \E e \in Emitters :
          /\ emits[e].pc = "done"
          /\ emits[e].user = "u1"
          /\ emits[e].targets = <<"w1">>
          /\ emits[e].delivered = {"w1"}
    /\ connections = [u \in {"u1"} |-> {"w1", "w2"}]
    /\ handles["w1"].received = 1
    /\ handles["w2"].received = 0

----------------------------------------------------------------------------
(* Claims about the STT service, checked under SpecStt *)

\* the provider results, which _handle_deepgram_message hands to the callback
ResultKinds == {"partial", "final"}

\* for a session whose receive loop is waiting for a message: a result whose
\* callback raises leaves the session as it is, the receive loop running, the
\* sender loop, the queue and the item in flight untouched, the session not
\* closed; and right after such a failure the receive loop takes the next message
CallbackFailureContained ==
    /\ \A s \in DOMAIN sess, kind \in ResultKinds :
           LET r == receive_message(sess[s], kind, "raises")
           IN  (sess[s].worker = "streaming" /\ sess[s].receiver = "running")
               => ( /\ r.receiver = "running"
                    /\ r.sender = sess[s].sender
                    /\ r.audio_queue = sess[s].audio_queue
                    /\ r.inflight = sess[s].inflight
                    /\ r.worker = "streaming"
                    /\ r.closed = sess[s].closed
                    /\ r.stopping = sess[s].stopping )
    /\ (sttEvent.op = "callback" /\ sttEvent.result = "raised")
          => LET s == sttEvent.session
             IN  /\ s \in DOMAIN sess
                 /\ sess[s].receiver = "running"
                 /\ ~sess[s].closed
                 /\ \A kind \in MessageKinds : ENABLED ReceiverMessage(s, kind, "returns")
                 /\ sess[s].inflight # <<>> => ENABLED SenderSend(s)

\* the step in which a callback raises changes nothing but the event
CallbackFailureStep ==
    (sttEvent'.op = "callback" /\ sttEvent'.result = "raised" /\ sttEvent' # sttEvent)
    => UNCHANGED <<sess, sessions, callbacks>>

\* C33: an exception of the transcript callback is caught and does not reach
\* the session's loops: after it the receive loop processes the following
\* messages, the sender loop keeps sending, and the session is not marked
\* closed because of it.
C33_CallbackFailureContained ==
    []CallbackFailureContained /\ [][CallbackFailureStep]_vars

\* the callback of the registered session has just raised on a result while a
\* chunk is in flight: both loops are running and the session is open
C33_Witness ==
    /\ sttEvent.op = "callback"
    /\ sttEvent.result = "raised"
    /\ "m1" \in DOMAIN sessions
    /\ sttEvent.session = sessions["m1"]
    /\ sess[sessions["m1"]].receiver = "running"
    /\ sess[sessions["m1"]].sender = "running"
    /\ sess[sessions["m1"]].inflight # <<>>
    /\ ~sess[sessions["m1"]].closed
    /\ ~sess[sessions["m1"]].stopping

\* C34: a start_session that fails with AlreadyActive leaves the callback
\* registered for the meeting as it was, so that a later rehydration of the
\* meeting's session uses the callback of the session that was started.
C34_FailedStartKeepsCallback ==
    [][ \A m \in Meetings :
           ( /\ sttEvent'.op = "start_session"
             /\ sttEvent'.meeting = m
             /\ sttEvent'.result = "AlreadyActive" )
           => ( /\ callbacks' = callbacks
                /\ callbacks[m] = sess[sessions[m]].callback )
      ]_vars

----------------------------------------------------------------------------
(* Claims about sessions that overlap, checked under SpecRestart *)

\* a loop of the session is running
LoopsRunning(ss) == ss.sender = "running" \/ ss.receiver \in {"running", "callback"}

\* C35: at every moment at most one session of a meeting has a running sender
\* or receiver loop, also while close_session for the meeting still awaits the
\* shutdown of the session it has unregistered.
C35_OneRunningSessionPerMeeting ==
    \A m \in Meetings :
        Cardinality({s \in DOMAIN sess : sess[s].meeting_id = m /\ LoopsRunning(sess[s])}) <= 1

----------------------------------------------------------------------------
(* Claims about closed meetings, checked under SpecStt *)

\* a meeting without registered session has no registered callback, and
\* send_audio_chunk for it, whatever the chunk, fails with NoCallbackRegistered
\* and leaves the sessions and the registry as they are
ClosedMeetingStaysClosed ==
    \A m \in Meetings, chunk \in {EmptyChunk, nextChunk} :
        LET r == send_audio_chunk(sess, sessions, callbacks, m, chunk)
        IN  m \notin DOMAIN sessions
            => ( /\ m \notin DOMAIN callbacks
                 /\ r.result = "NoCallbackRegistered"
                 /\ r.sess = sess
                 /\ r.sessions = sessions )

\* close_session and close_all leave the meeting without registered session
\* and callback; a meeting without registered session gets one only by a
\* start_session, and a send_audio_chunk for it fails and creates nothing
ClosedMeetingStep ==
    \A m \in Meetings :
        /\ ( \/ (sttEvent'.op = "close_session" /\ sttEvent'.meeting = m)
             \/ sttEvent'.op = "close_all" )
              => (sttEvent' # sttEvent => m \notin DOMAIN sessions' /\ m \notin DOMAIN callbacks')
        /\ (m \notin DOMAIN sessions /\ m \in DOMAIN sessions')
              => (sttEvent'.op = "start_session" /\ sttEvent'.result = "ok")
        /\ ( /\ m \notin DOMAIN sessions
             /\ sttEvent'.op = "send_audio_chunk"
             /\ sttEvent'.meeting = m
             /\ sttEvent' # sttEvent )
              => ( /\ sttEvent'.result = "NoCallbackRegistered"
                   /\ DOMAIN sess' \subseteq DOMAIN sess
                   /\ sessions' = sessions )

\* C36: once close_session or close_all has removed a meeting's session,
\* send_audio_chunk for the meeting never creates a session: it fails with
\* NoCallbackRegistered until start_session is called again for the meeting.
C36_ClosedMeetingStaysClosed ==
    []ClosedMeetingStaysClosed /\ [][ClosedMeetingStep]_vars

\* a chunk has just been refused for a meeting whose session close_session or
\* close_all has unregistered and is still shutting down
C36_Witness ==
    /\ sttEvent.op = "send_audio_chunk"
    /\ sttEvent.meeting = "m1"
    /\ sttEvent.result = "NoCallbackRegistered"
    /\ "m1" \notin DOMAIN sessions
    /\ \E s \in DOMAIN sess : sess[s].meeting_id = "m1" /\ sess[s].close_waiting

----------------------------------------------------------------------------
(* Claims about the transcript callback, checked under SpecGateway *)

\* a provider result as _handle_deepgram_message hands it to the callback
ProviderResult(is_final, text, timestamp) ==
    [is_final |-> is_final, text |-> text, timestamp |-> timestamp]

\* C37: while the client of a streaming handler is connected, a final result
\* whose text is not empty and differs from the meeting's previous final
\* result is stored at the end of the full history and confirmed to the client
\* with a 'final_transcript' frame, whatever interim result came in between.
C37_NewFinalStoredAndConfirmed ==
    \A c \in Connections, previous \in ProviderTexts, interim \in ProviderTexts,
       final \in ProviderTexts, timestamp \in ProviderClock :
        LET m == MeetingOf(c)
            h1 == handle_transcript(buffers, m, ProviderResult(TRUE, previous, timestamp))
            h2 == handle_transcript(h1.buffers, m, ProviderResult(FALSE, interim, timestamp))
            h3 == handle_transcript(h2.buffers, m, ProviderResult(TRUE, final, timestamp))
        IN  ( /\ gw[c].pc = "streaming"
              /\ gw[c].client_state = "connected"
              /\ normalize_text(final) # <<>>
              /\ normalize_text(final) # normalize_text(previous) )
            => ( /\ Len(h3.buffers[m].full_entries) = Len(h2.buffers[m].full_entries) + 1
                 /\ Last(h3.buffers[m].full_entries).text = normalize_text(final)
                 /\ \E i \in DOMAIN h3.frames :
                       /\ h3.frames[i].type = "final_transcript"
                       /\ h3.frames[i].text = normalize_text(final) )

----------------------------------------------------------------------------
(* Claims about visibility and authority, checked under SpecApproval *)

\* C38: every pending approval get_pending_approvals returns to a user is one
\* on which the manager check of approve and reject passes for that user; a
\* user who is neither ORG_ADMIN nor MANAGER of a team is returned none.
C38_VisibleImpliesAuthorized ==
    \A user_id \in Users, org_id \in OrgIds :
        LET returned == get_pending_approvals(pending, org_members, team_members,
                                              user_id, org_id)
        IN  /\ \A i \in 1..Len(returned) :
                  is_manager(org_members, team_members, pending[returned[i]].orgId,
                             pending[returned[i]].teamId, user_id)
            /\ ( /\ ~is_org_admin(members_of(org_members, org_id), user_id)
                 /\ get_user_managed_teams(team_members, user_id) = {} )
               => returned = <<>>

----------------------------------------------------------------------------
(* Claims about tasks and candidates, checked under SpecResolve *)

\* the stored candidates that refer to the task and are APPROVED
ApprovedFor(task_id) ==
    { pc \in { <<p, i>> : p \in 1..Len(pending), i \in 1..2 } :
        /\ pc[2] <= Len(pending[pc[1]].taskCandidates)
        /\ pending[pc[1]].taskCandidates[pc[2]].approvedTaskId = task_id
        /\ pending[pc[1]].taskCandidates[pc[2]].status = "APPROVED" }

\* C39: whenever no approve or reject call is under way, every task created by
\* an approval is the approvedTaskId of exactly one stored candidate, and that
\* candidate is APPROVED.
C39_TasksBackReferenced ==
    (\A k \in Threads : calls[k].pc = "idle")
    => \A t \in 1..Len(tasks) : Cardinality(ApprovedFor(tasks[t].taskId)) = 1

----------------------------------------------------------------------------
(* Claims about the two views of a buffer, checked under SpecBuffer *)

\* s is the end of t
IsSuffix(s, t) == Len(s) <= Len(t) /\ SubSeq(t, Len(t) - Len(s) + 1, Len(t)) = s

\* C40: in every meeting buffer the rolling queue is a suffix of the full
\* history, the same entries in the same order, after any sequence of
\* add_final_transcript, add_partial_transcript, get_recent_entries and
\* get_full_entries calls.
C40_RollingSuffixOfFull ==
    \A m \in DOMAIN buffers : IsSuffix(buffers[m].entries, buffers[m].full_entries)

\* an insert has just evicted the older entries from the rolling queue, which
\* holds the last entry of a history of three
C40_Witness ==
    /\ bufEvent.op \in {"add_final_transcript", "add_partial_transcript"}
    /\ bufEvent.ret # <<>>
    /\ "m1" \in DOMAIN buffers
    /\ Len(buffers["m1"].full_entries) = 3
    /\ buffers["m1"].entries = <<buffers["m1"].full_entries[3]>>

====
